---- MODULE Spec2Model ----
(***************************************************************************)
(* Model of the resume search pipeline of mongoresumesearchbot:            *)
(*   query_db        (src/tools.py and src/app.py)                         *)
(*   search_resumes  (src/app1.py)                                         *)
(* A request compiles a MongoDB filter, the store answers it (or fails),   *)
(* and query_db hands the candidate pool to the scoring oracle and keeps   *)
(* the records the oracle names.                                           *)
(***************************************************************************)
EXTENDS Integers, Sequences, FiniteSets, TLC

VARIABLES
    store,          \* the resumes collection: a sequence of documents in natural order
    pc,             \* position of the request: "idle", "store", "oracle", "done"
    request,        \* the arguments of the running call
    mongo_q,        \* the compiled filter (local mongo_q)
    candidates,     \* the candidate pool returned by coll.find(...).limit(...)
    outcome,        \* the dictionary the call returns
    storeQueries,   \* number of coll.find calls made by the running request
    oracleCalls,    \* number of chat.completions.create calls made by the running request
    store_failed,   \* whether coll.find raised in the running request
    content,        \* the oracle's reply to the running request (message.content)
    ui,             \* the script that serves the chat session: "app", "design", or "none"
    messages,       \* memory.chat_memory.messages: a sequence of [type, content]
    processed_responses,    \* st.session_state.processed_responses: key -> parsed reply
    resume_ids,     \* st.session_state.resume_ids: [name, resumeId] entries in insertion order
    job_match_data, \* st.session_state.job_match_data: resumeId -> jobsMatched
    parse_count,    \* per cache key, the process_response calls the render loop made for it
    lookup,         \* the running get_resume_id_by_name call: the name asked, the result
    outbox          \* the mail the latest script run handed to send_email, and the
                    \* cache key of the listing it renders

vars == <<store, pc, request, mongo_q, candidates, outcome, storeQueries, oracleCalls,
          store_failed, content, ui, messages, processed_responses, resume_ids,
          job_match_data, parse_count, lookup, outbox>>

\* the variables of the chat session
session == <<ui, messages, processed_responses, resume_ids, job_match_data, parse_count,
            lookup, outbox>>

\* the variables of a query_db / search_resumes call
pipeline == <<pc, request, mongo_q, candidates, outcome, storeQueries, oracleCalls,
              store_failed, content>>

\* no get_resume_id_by_name call is running
NoLookup ==
    [asked |-> "", returned |-> [found |-> FALSE, error |-> FALSE, name |-> "", resumeId |-> "",
                  finds |-> 0]]

\* the latest script run sent no mail
NoEmail == [sent |-> FALSE, key |-> "", subject |-> "", body |-> ""]

\* no chat session is open
NoSession ==
    /\ ui = "none"
    /\ messages = <<>>
    /\ processed_responses = <<>>
    /\ resume_ids = <<>>
    /\ job_match_data = <<>>
    /\ parse_count = <<>>
    /\ lookup = NoLookup
    /\ outbox = NoEmail

(***************************************************************************)
(* Bounds of the model.                                                    *)
(***************************************************************************)
MaxStore == 11      \* largest store of the pipeline specification
MaxTopK == 2        \* largest top_k a request gives explicitly
MaxYears == 3       \* largest requested experience bound
MaxNamed == 3       \* an oracle reply picks freely among the first MaxNamed stored resumeIds

(***************************************************************************)
(* Program constants.                                                      *)
(***************************************************************************)
ToolsFindLimit == 50        \* .limit(50) of query_db in src/tools.py
RankedCap == 10             \* "Return only the 10 best resumeIds" of EVALUATOR_PROMPT
ToolsTopKDefault == 100     \* TOP_K_DEFAULT of src/tools.py
AppTopKDefault == 50        \* TOP_K_DEFAULT of src/app.py
App1TopKDefault == 50       \* TOP_K_DEFAULT of src/app1.py

(***************************************************************************)
(* Python / BSON values: a number, a string, null (None) or a missing      *)
(* field.                                                                  *)
(***************************************************************************)
Num(n) == [t |-> "num", n |-> n, s |-> ""]
Str(s) == [t |-> "str", n |-> 0, s |-> s]
Null == [t |-> "null", n |-> 0, s |-> ""]
Missing == [t |-> "missing", n |-> 0, s |-> ""]

Range(f) == {f[i] : i \in DOMAIN f}

(***************************************************************************)
(* Strings, character by character.                                        *)
(***************************************************************************)
UpperLetters == "ABCDEFGHIJKLMNOPQRSTUVWXYZ"
LowerLetters == "abcdefghijklmnopqrstuvwxyz"
Digits == "0123456789"

CharAt(s, i) == SubSeq(s, i, i)

IndexIn(c, alphabet) ==
    IF \E i \in 1..Len(alphabet) : CharAt(alphabet, i) = c
    THEN CHOOSE i \in 1..Len(alphabet) : CharAt(alphabet, i) = c
    ELSE 0

LowerChar(c) ==
    IF IndexIn(c, UpperLetters) > 0 THEN CharAt(LowerLetters, IndexIn(c, UpperLetters)) ELSE c

RECURSIVE Lower(_)
\* str.lower()
Lower(s) == IF Len(s) = 0 THEN "" ELSE LowerChar(CharAt(s, 1)) \o Lower(SubSeq(s, 2, Len(s)))

IsSpace(c) == c \in {" ", "\t", "\n"}

RECURSIVE LStrip(_)
LStrip(s) ==
    IF Len(s) > 0 /\ IsSpace(CharAt(s, 1)) THEN LStrip(SubSeq(s, 2, Len(s))) ELSE s

RECURSIVE RStrip(_)
RStrip(s) ==
    IF Len(s) > 0 /\ IsSpace(CharAt(s, Len(s))) THEN RStrip(SubSeq(s, 1, Len(s) - 1)) ELSE s

\* str.strip()
Strip(s) == RStrip(LStrip(s))

RECURSIVE DigitsValue(_, _)
\* value of a string of decimal digits, given the value of the digits read so far
DigitsValue(s, acc) ==
    IF Len(s) = 0 THEN acc
    ELSE DigitsValue(SubSeq(s, 2, Len(s)), 10 * acc + (IndexIn(CharAt(s, 1), Digits) - 1))

IsDigits(s) == Len(s) > 0 /\ \A i \in 1..Len(s) : IndexIn(CharAt(s, i), Digits) > 0

(***************************************************************************)
(* Synonym tables (dictionaries) and expand.  The tables are those of      *)
(* src/app.py (src/app1.py repeats COUNTRY_EQUIV); src/tools.py imports    *)
(* tables of the same names from the variants module.                      *)
(***************************************************************************)
COUNTRY_EQUIV ==
    ("indonesia" :> <<"indonesia">>) @@
    ("vietnam" :> <<"vietnam", "viet nam", "vn", "vietnamese">>) @@
    ("united states" :> <<"united states", "usa", "us">>) @@
    ("malaysia" :> <<"malaysia">>) @@
    ("india" :> <<"india", "ind">>) @@
    ("singapore" :> <<"singapore">>) @@
    ("philippines" :> <<"philippines", "the philippines">>) @@
    ("australia" :> <<"australia">>) @@
    ("new zealand" :> <<"new zealand">>) @@
    ("germany" :> <<"germany">>) @@
    ("saudi arabia" :> <<"saudi arabia", "ksa">>) @@
    ("japan" :> <<"japan">>) @@
    ("hong kong" :> <<"hong kong", "hong kong sar">>) @@
    ("thailand" :> <<"thailand">>) @@
    ("united arab emirates" :> <<"united arab emirates", "uae">>)

SKILL_VARIANTS ==
    ("sql" :> <<"sql", "mysql", "postgresql", "mariadb", "t-sql", "microsoft sql server">>) @@
    ("python" :> <<"python">>) @@
    ("javascript" :> <<"javascript", "js", "java script">>) @@
    ("c#" :> <<"c#", "c sharp", "csharp">>) @@
    ("html" :> <<"html", "hypertext markup language">>)

TITLE_VARIANTS ==
    ("software developer" :>
        <<"software developer", "software dev", "softwaredeveloper", "software engineer">>) @@
    ("backend developer" :>
        <<"backend developer", "backend dev", "back-end developer", "server-side developer">>) @@
    ("frontend developer" :>
        <<"frontend developer", "frontend dev", "front-end developer">>)

\* dict.get(key, default)
DictGet(table, key, default) == IF key \in DOMAIN table THEN table[key] ELSE default

\* expand of src/app.py: the bucket of the trimmed lower-cased term, plus the term as given
expand(values, table) ==
    UNION {Range(DictGet(table, Lower(Strip(values[i])), <<>>)) \cup {values[i]}
           : i \in DOMAIN values}

\* expand of the variants module (imported by src/tools.py): the bucket of the trimmed
\* lower-cased term, plus the trimmed lower-cased term itself
variants_expand(values, table) ==
    UNION {Range(DictGet(table, Lower(Strip(values[i])), <<>>)) \cup {Lower(Strip(values[i]))}
           : i \in DOMAIN values}

(***************************************************************************)
(* Documents of the resumes collection.                                    *)
(*   resumeId        string                                                *)
(*   country         value (string or missing)                             *)
(*   jobExperiences  sequence of [title: string, duration: value]          *)
(*   skills          sequence of [skillName: string]                       *)
(*   keywords        sequence of strings                                   *)
(*   totalExperience value (number or missing)                             *)
(***************************************************************************)
Doc(id, country, jobs, skills, keywords, total) ==
    [resumeId |-> id, country |-> country, jobExperiences |-> jobs,
     skills |-> skills, keywords |-> keywords, totalExperience |-> total]

Job(title, duration) == [title |-> title, duration |-> duration]
Skill(name) == [skillName |-> name]

\* the strings a query on a dotted field path sees in a document
FieldStrings(doc, field) ==
    CASE field = "country" -> IF doc.country.t = "str" THEN {doc.country.s} ELSE {}
      [] field = "skills.skillName" -> {doc.skills[i].skillName : i \in DOMAIN doc.skills}
      [] field = "keywords" -> Range(doc.keywords)
      [] field = "jobExperiences.title" ->
            {doc.jobExperiences[i].title : i \in DOMAIN doc.jobExperiences}
      [] OTHER -> {}

RECURSIVE SumSeq(_)
\* $sum over an array of numbers
SumSeq(xs) == IF xs = <<>> THEN 0 ELSE Head(xs) + SumSeq(Tail(xs))

\* {"$convert": {"input": v, "to": "double", "onError": 0, "onNull": 0}}
ConvertOrZero(v) ==
    CASE v.t = "num" -> v.n
      [] v.t = "str" -> IF IsDigits(v.s) THEN DigitsValue(v.s, 0) ELSE 0
      [] OTHER -> 0

\* {"$ifNull": [v, default]}
IfNull(v, default) == IF v.t \in {"null", "missing"} THEN default ELSE v

\* {"$toDouble": v}: a number, or a conversion failure on an unparsable string
ToDouble(v) ==
    CASE v.t = "num" -> [ok |-> TRUE, n |-> v.n]
      [] v.t = "str" -> IF IsDigits(v.s) THEN [ok |-> TRUE, n |-> DigitsValue(v.s, 0)]
                        ELSE [ok |-> FALSE, n |-> 0]
      [] OTHER -> [ok |-> TRUE, n |-> 0]

\* "$job.duration" written with one dollar sign is a field path of the document
\* itself (not the $map variable "job"); the documents have no top-level job field.
RootJobDuration(doc) == Missing

\* {"$sum": {"$map": {"input": "$jobExperiences", "as": "job",
\*                    "in": {"$convert": {"input": "$job.duration", ...}}}}}
SumRootPathDurations(doc) ==
    SumSeq([i \in DOMAIN doc.jobExperiences |-> ConvertOrZero(RootJobDuration(doc))])

\* the same with "$$job.duration": the duration of each job experience
SumJobDurations(doc) ==
    SumSeq([i \in DOMAIN doc.jobExperiences |->
               ConvertOrZero(IfNull(doc.jobExperiences[i].duration, Str("0")))])

\* {"$first": "$jobExperiences.duration"}: the path collects the durations that are
\* present, $first takes the first of them
FirstDuration(doc) ==
    LET present == SelectSeq([i \in DOMAIN doc.jobExperiences |->
                                 doc.jobExperiences[i].duration],
                             LAMBDA d : d.t # "missing")
    IN IF present = <<>> THEN Missing ELSE present[1]

\* {"$toDouble": {"$ifNull": [{"$first": "$jobExperiences.duration"}, "0"]}}
FirstDurationToDouble(doc) == ToDouble(IfNull(FirstDuration(doc), Str("0")))

(***************************************************************************)
(* Regular expressions of src/app1.py: an escaped literal between anchors  *)
(* or between word boundaries, matched ignoring case.                      *)
(***************************************************************************)
IsWordChar(c) ==
    \/ IndexIn(c, UpperLetters) > 0
    \/ IndexIn(c, LowerLetters) > 0
    \/ IndexIn(c, Digits) > 0
    \/ c = "_"

\* \b at position p of s (between s[p-1] and s[p])
WordBoundary(s, p) ==
    (p > 1 /\ IsWordChar(CharAt(s, p - 1))) # (p <= Len(s) /\ IsWordChar(CharAt(s, p)))

\* re.search(r"\b" + re.escape(lit) + r"\b", s, re.IGNORECASE)
RegexWordI(lit, s) ==
    \E p \in 1..(Len(s) + 1) :
        /\ p + Len(lit) - 1 <= Len(s)
        /\ Lower(SubSeq(s, p, p + Len(lit) - 1)) = Lower(lit)
        /\ WordBoundary(s, p)
        /\ WordBoundary(s, p + Len(lit))

\* re.search("^" + re.escape(lit) + "$", s, re.IGNORECASE)
RegexFullI(lit, s) == Lower(s) = Lower(lit)

(***************************************************************************)
(* Filter clauses.  One record shape for every clause:                     *)
(*   op     "in" | "or" | "field_gte" | "field_lte" | "expr_gte" |         *)
(*          "expr_lte" | "regex_word_i" | "regex_full_i"                   *)
(*   field  the field path, or the name of the $expr left-hand side        *)
(*   vals   the $in list, or the regex literal                             *)
(*   n      the number compared against                                    *)
(*   args   the clauses under $or                                          *)
(***************************************************************************)
In(field, vals) == [op |-> "in", field |-> field, vals |-> vals, n |-> 0, args |-> <<>>]
Or(args) == [op |-> "or", field |-> "", vals |-> {}, n |-> 0, args |-> args]
FieldCmp(op, field, n) == [op |-> op, field |-> field, vals |-> {}, n |-> n, args |-> <<>>]
Expr(op, lhs, n) == [op |-> op, field |-> lhs, vals |-> {}, n |-> n, args |-> <<>>]
Regex(op, field, lit) == [op |-> op, field |-> field, vals |-> {lit}, n |-> 0, args |-> <<>>]

\* the value of a $expr left-hand side on a document: [ok, n]
ExprValue(doc, lhs) ==
    CASE lhs = "sum_convert($job.duration)" -> [ok |-> TRUE, n |-> SumRootPathDurations(doc)]
      [] lhs = "sum_convert($$job.duration)" -> [ok |-> TRUE, n |-> SumJobDurations(doc)]
      [] lhs = "toDouble(first(duration))" -> FirstDurationToDouble(doc)
      [] OTHER -> [ok |-> FALSE, n |-> 0]

RECURSIVE EvalClause(_, _)
\* the store's evaluation of one clause on one document: "T", "F", or "E" when the
\* evaluation raises (a conversion failure inside $expr)
EvalClause(doc, c) ==
    CASE c.op = "in" ->
            IF FieldStrings(doc, c.field) \cap c.vals # {} THEN "T" ELSE "F"
      [] c.op = "or" ->
            LET rs == {EvalClause(doc, c.args[i]) : i \in DOMAIN c.args}
            IN IF "T" \in rs THEN "T" ELSE IF "E" \in rs THEN "E" ELSE "F"
      [] c.op = "field_gte" ->
            IF doc[c.field].t = "num" /\ doc[c.field].n >= c.n THEN "T" ELSE "F"
      [] c.op = "field_lte" ->
            IF doc[c.field].t = "num" /\ doc[c.field].n <= c.n THEN "T" ELSE "F"
      [] c.op = "expr_gte" ->
            LET v == ExprValue(doc, c.field)
            IN IF ~v.ok THEN "E" ELSE IF v.n >= c.n THEN "T" ELSE "F"
      [] c.op = "expr_lte" ->
            LET v == ExprValue(doc, c.field)
            IN IF ~v.ok THEN "E" ELSE IF v.n <= c.n THEN "T" ELSE "F"
      [] c.op = "regex_word_i" ->
            IF \E s \in FieldStrings(doc, c.field) : \E lit \in c.vals : RegexWordI(lit, s)
            THEN "T" ELSE "F"
      [] c.op = "regex_full_i" ->
            IF \E s \in FieldStrings(doc, c.field) : \E lit \in c.vals : RegexFullI(lit, s)
            THEN "T" ELSE "F"
      [] OTHER -> "F"

\* a filter is the top-level field clauses plus the list under "$and"
Clauses(q) == q.top \o q.and

\* the store's verdict on one document: every clause true ("T"), some clause false
\* ("F"), or no clause false and some clause raising ("E")
EvalFilter(doc, q) ==
    LET rs == {EvalClause(doc, Clauses(q)[i]) : i \in DOMAIN Clauses(q)}
    IN IF "F" \in rs THEN "F" ELSE IF "E" \in rs THEN "E" ELSE "T"

RECURSIVE Scan(_, _, _, _)
\* coll.find(q).limit(limit) over the documents in natural order: the first
\* `limit` matching documents, or a failure when a scanned document raises
Scan(docs, q, limit, acc) ==
    IF docs = <<>> \/ Len(acc) = limit THEN [ok |-> TRUE, docs |-> acc]
    ELSE LET r == EvalFilter(Head(docs), q)
         IN IF r = "E" THEN [ok |-> FALSE, docs |-> <<>>]
            ELSE Scan(Tail(docs), q, limit, IF r = "T" THEN Append(acc, Head(docs)) ELSE acc)

\* cursor.limit(n): n = 0 means no limit
Find(docs, q, limit) == Scan(docs, q, IF limit = 0 THEN Len(docs) ELSE limit, <<>>)

(***************************************************************************)
(* Requests.  None and the empty string / empty list behave alike in the   *)
(* truth tests of the code ("if country:", "if skills:"), so an absent     *)
(* country is "" and an absent list is <<>>; an absent number is Null.     *)
(* The free-text query only reaches the oracle prompt and is left out.     *)
(***************************************************************************)
Request(impl, country, min, max, titles, skills, top_k, method) ==
    [impl |-> impl, country |-> country, min_experience_years |-> min,
     max_experience_years |-> max, job_titles |-> titles, skills |-> skills,
     top_k |-> top_k, search_method |-> method]

\* no call is running
NoRequest == Request("", "", Null, Null, <<>>, <<>>, 0, "")

Filter(top, and) == [top |-> top, and |-> and]

\* COUNTRY_EQUIV.get(country.strip().lower(), [country])
CountryValues(country) == Range(DictGet(COUNTRY_EQUIV, Lower(Strip(country)), <<country>>))

\* isinstance(v, (int, float)) and v > 0   /   isinstance(v, int) and v > 0
PositiveNumber(v) == v.t = "num" /\ v.n > 0

Concat4(a, b, c, d) == a \o b \o c \o d

(***************************************************************************)
(* query_db of src/tools.py: filter compilation.                           *)
(***************************************************************************)
\* mutant of ToolsSkillCondition: the keyword list is not consulted
ToolsSkillConditionNamesOnly(skill) ==
    Or(<<In("skills.skillName", variants_expand(<<skill>>, SKILL_VARIANTS))>>)

ToolsSkillCondition(skill) ==
    Or(<<In("skills.skillName", variants_expand(<<skill>>, SKILL_VARIANTS)),
         In("keywords", variants_expand(<<skill>>, SKILL_VARIANTS))>>)

ToolsTitleCondition(title) ==
    In("jobExperiences.title", variants_expand(<<title>>, TITLE_VARIANTS))

ToolsTitleConditions(job_titles) ==
    [i \in DOMAIN job_titles |-> ToolsTitleCondition(job_titles[i])]

ToolsMinCondition(n) ==
    Or(<<FieldCmp("field_gte", "totalExperience", n),
         Expr("expr_gte", "sum_convert($job.duration)", n)>>)

ToolsMaxCondition(n) ==
    Or(<<FieldCmp("field_lte", "totalExperience", n),
         Expr("expr_lte", "sum_convert($job.duration)", n)>>)

\* mutant of ToolsFilter: the country clause is added whether or not a country is given
ToolsFilterCountryAlways(req) ==
    Filter(<<In("country", CountryValues(req.country))>>,
           Concat4([i \in DOMAIN req.skills |-> ToolsSkillCondition(req.skills[i])],
                   ToolsTitleConditions(req.job_titles),
                   IF PositiveNumber(req.min_experience_years)
                   THEN <<ToolsMinCondition(req.min_experience_years.n)>> ELSE <<>>,
                   IF PositiveNumber(req.max_experience_years)
                   THEN <<ToolsMaxCondition(req.max_experience_years.n)>> ELSE <<>>))

ToolsFilter(req) ==
    Filter(IF req.country # "" THEN <<In("country", CountryValues(req.country))>> ELSE <<>>,
           Concat4([i \in DOMAIN req.skills |-> ToolsSkillCondition(req.skills[i])],
                   ToolsTitleConditions(req.job_titles),
                   IF PositiveNumber(req.min_experience_years)
                   THEN <<ToolsMinCondition(req.min_experience_years.n)>> ELSE <<>>,
                   IF PositiveNumber(req.max_experience_years)
                   THEN <<ToolsMaxCondition(req.max_experience_years.n)>> ELSE <<>>))

\* .limit(50): the top_k argument is not used
ToolsLimit(req) == ToolsFindLimit

(***************************************************************************)
(* query_db of src/app.py: filter compilation.                             *)
(***************************************************************************)
AppSkillClause(skill) ==
    Or(<<In("skills.skillName", expand(<<skill>>, SKILL_VARIANTS)),
         In("keywords", expand(<<skill>>, SKILL_VARIANTS))>>)

AppTitleClauses(job_titles) ==
    IF job_titles # <<>>
    THEN <<In("jobExperiences.title", expand(job_titles, TITLE_VARIANTS))>>
    ELSE <<>>

AppMinClause(n) == Expr("expr_gte", "toDouble(first(duration))", n)

AppFilter(req) ==
    Filter(IF req.country # "" THEN <<In("country", CountryValues(req.country))>> ELSE <<>>,
           Concat4([i \in DOMAIN req.skills |-> AppSkillClause(req.skills[i])],
                   AppTitleClauses(req.job_titles),
                   IF PositiveNumber(req.min_experience_years)
                   THEN <<AppMinClause(req.min_experience_years.n)>> ELSE <<>>,
                   <<>>))

\* .limit(top_k)
AppLimit(req) == req.top_k

(***************************************************************************)
(* search_resumes of src/app1.py: filter compilation.                      *)
(***************************************************************************)
\* sub in s
Contains(s, sub) ==
    \E p \in 1..(Len(s) + 1) :
        p + Len(sub) - 1 <= Len(s) /\ SubSeq(s, p, p + Len(sub) - 1) = sub

\* the entries kept by "if not title: continue"
NonEmpty(xs) == SelectSeq(xs, LAMBDA x : x # "")

LowerAll(xs) == [i \in DOMAIN xs |-> Lower(xs[i])]

App1CountryCondition(country) ==
    Or(<<In("country", CountryValues(country)), Regex("regex_full_i", "country", country)>>)

App1MinCondition(n) == Expr("expr_gte", "sum_convert($$job.duration)", n)

App1TitleCondition(title) == Regex("regex_word_i", "jobExperiences.title", Lower(title))

App1TitleConditions(job_titles) ==
    [i \in DOMAIN NonEmpty(job_titles) |-> App1TitleCondition(NonEmpty(job_titles)[i])]

\* for each literal: a skills.skillName regex, then a keywords regex
App1SkillPairs(lits) ==
    [i \in 1..(2 * Len(lits)) |->
        IF i % 2 = 1 THEN Regex("regex_word_i", "skills.skillName", lits[(i + 1) \div 2])
        ELSE Regex("regex_word_i", "keywords", lits[i \div 2])]

App1SkillCondition(lit) == Or(App1SkillPairs(<<lit>>))

\* mutant of App1AnyOf: every condition is a clause of its own
App1EachOf(conditions) == conditions

App1AnyOf(conditions) == IF conditions # <<>> THEN <<Or(conditions)>> ELSE <<>>

\* the family the balanced method files a lower-cased skill under
SkillFamily(skill_lower) ==
    IF \E term \in {"sql", "mysql", "postgresql", "nosql"} : Contains(skill_lower, term)
    THEN "SQL"
    ELSE IF \E term \in {"python", "py", "django", "flask"} : Contains(skill_lower, term)
    THEN "Python"
    ELSE IF \E term \in {"javascript", "js", "typescript", "node"} : Contains(skill_lower, term)
    THEN "JavaScript"
    ELSE "other"

FamilyMembers(skills, family) ==
    SelectSeq(LowerAll(NonEmpty(skills)), LAMBDA x : SkillFamily(x) = family)

\* mutant of App1StrictConditions: the skills are left out
App1StrictTitlesOnly(req) == App1TitleConditions(req.job_titles)

App1StrictConditions(req) ==
    App1TitleConditions(req.job_titles)
    \o [i \in DOMAIN NonEmpty(req.skills) |->
           App1SkillCondition(Lower(NonEmpty(req.skills)[i]))]

App1RelaxedConditions(req) ==
    App1AnyOf(App1TitleConditions(req.job_titles))
    \o App1AnyOf(App1SkillPairs(LowerAll(NonEmpty(req.skills))))

\* mutant of App1BalancedConditions: one clause per skill, no families
App1BalancedPerSkill(req) ==
    App1AnyOf(App1TitleConditions(req.job_titles))
    \o [i \in DOMAIN NonEmpty(req.skills) |->
           App1SkillCondition(Lower(NonEmpty(req.skills)[i]))]

App1BalancedConditions(req) ==
    Concat4(App1AnyOf(App1TitleConditions(req.job_titles)),
            App1AnyOf(App1SkillPairs(FamilyMembers(req.skills, "SQL")))
            \o App1AnyOf(App1SkillPairs(FamilyMembers(req.skills, "Python"))),
            App1AnyOf(App1SkillPairs(FamilyMembers(req.skills, "JavaScript"))),
            [i \in DOMAIN FamilyMembers(req.skills, "other") |->
                App1SkillCondition(FamilyMembers(req.skills, "other")[i])])

App1MethodConditions(req) ==
    CASE req.search_method = "strict" -> App1StrictConditions(req)
      [] req.search_method = "relaxed" -> App1RelaxedConditions(req)
      [] req.search_method = "balanced" -> App1BalancedConditions(req)
      [] OTHER -> <<>>

App1Filter(req) ==
    Filter(<<>>,
           Concat4(IF req.country # "" THEN <<App1CountryCondition(req.country)>> ELSE <<>>,
                   IF PositiveNumber(req.min_experience_years)
                   THEN <<App1MinCondition(req.min_experience_years.n)>> ELSE <<>>,
                   App1MethodConditions(req),
                   <<>>))

\* .limit(top_k)
App1Limit(req) == req.top_k

(***************************************************************************)
(* The three implementations behind one request.                           *)
(***************************************************************************)
CompileFilter(req) ==
    CASE req.impl = "tools" -> ToolsFilter(req)
      [] req.impl = "app" -> AppFilter(req)
      [] OTHER -> App1Filter(req)

FindLimit(req) ==
    CASE req.impl = "tools" -> ToolsLimit(req)
      [] req.impl = "app" -> AppLimit(req)
      [] OTHER -> App1Limit(req)

(***************************************************************************)
(* Outcomes: the dictionary a call returns.  An error dictionary has only  *)
(* the "error" key; its category is the prefix of the error text.  The     *)
(* completed_at timestamp and the reasoning text are left out.             *)
(***************************************************************************)
NoOutcome ==
    [kind |-> "none", category |-> "", message |-> "", results_count |-> 0, results |-> <<>>]

Result(message, results) ==
    [kind |-> "ok", category |-> "", message |-> message,
     results_count |-> Len(results), results |-> results]

Error(category) ==
    [kind |-> "error", category |-> category, message |-> "",
     results_count |-> 0, results |-> <<>>]

(***************************************************************************)
(* The oracle's reply (chat.choices[0].message.content):                   *)
(*   "notjson"    text that json.loads rejects                             *)
(*   "nonobject"  valid JSON that is not an object (no .get)               *)
(*   "nokey"      an object without "top_resume_ids"                       *)
(*   "null"       an object whose "top_resume_ids" is null                 *)
(*   "ids"        an object whose "top_resume_ids" lists the ids           *)
(***************************************************************************)
Reply(kind, ids) == [kind |-> kind, ids |-> ids]

\* no reply yet; "raised" marks a call of the oracle that raised instead of answering
NoReply == Reply("none", {})

\* content.get("top_resume_ids", [])
TopResumeIds(reply) == IF reply.kind = "ids" THEN reply.ids ELSE {}

\* mutant of BestResumes: the oracle's ids are looked up in the whole collection
BestResumesOfStore(pool, best_ids) == SelectSeq(store, LAMBDA r : r.resumeId \in best_ids)

\* [r for r in candidates if r["resumeId"] in best_ids]
BestResumes(pool, best_ids) == SelectSeq(pool, LAMBDA r : r.resumeId \in best_ids)

\* mutant of ToolsRanked: a reply that cannot be parsed counts as an empty selection
ToolsRankedDegrading(pool, reply) ==
    Result("Found " \o ToString(Len(BestResumes(pool, TopResumeIds(reply))))
           \o " resumes that meet ALL criteria out of " \o ToString(Len(pool))
           \o " initial matches.",
           BestResumes(pool, TopResumeIds(reply)))

\* src/tools.py, from "Parse LLM response" to the return
ToolsRanked(pool, reply) ==
    CASE reply.kind \in {"notjson", "nonobject"} -> Error("Error parsing LLM response")
      [] reply.kind = "null" /\ pool # <<>> -> Error("exception")
      [] OTHER ->
            Result("Found " \o ToString(Len(BestResumes(pool, TopResumeIds(reply))))
                   \o " resumes that meet ALL criteria out of " \o ToString(Len(pool))
                   \o " initial matches.",
                   BestResumes(pool, TopResumeIds(reply)))

\* src/app.py: score_resumes, the list comprehension and the return
AppRanked(pool, reply) ==
    CASE reply.kind \in {"notjson", "nonobject"} -> Error("exception")
      [] reply.kind = "null" /\ pool # <<>> -> Error("exception")
      [] OTHER ->
            Result(ToString(Len(BestResumes(pool, TopResumeIds(reply))))
                   \o " resumes after scoring.",
                   BestResumes(pool, TopResumeIds(reply)))

(***************************************************************************)
(* Actions.                                                                *)
(***************************************************************************)
\* a call of query_db / search_resumes, up to the store query
Call(req) ==
    /\ pc = "idle"
    /\ request' = req
    /\ mongo_q' = CompileFilter(req)
    /\ candidates' = <<>>
    /\ outcome' = NoOutcome
    /\ storeQueries' = 0
    /\ oracleCalls' = 0
    /\ store_failed' = FALSE
    /\ content' = NoReply
    /\ pc' = "store"
    /\ UNCHANGED store
    /\ UNCHANGED session

\* coll.find(mongo_q, ...).limit(...) answers
StoreOk ==
    /\ pc = "store"
    /\ Find(store, mongo_q, FindLimit(request)).ok
    /\ candidates' = Find(store, mongo_q, FindLimit(request)).docs
    /\ storeQueries' = storeQueries + 1
    /\ IF request.impl = "app1"
       THEN /\ outcome' = Result("", candidates')
            /\ pc' = "done"
       ELSE IF request.impl = "tools" /\ candidates' = <<>>
       THEN /\ outcome' = Result("No resumes match the criteria.", <<>>)
            /\ pc' = "done"
       ELSE /\ outcome' = outcome
            /\ pc' = "oracle"
    /\ UNCHANGED <<store, request, mongo_q, oracleCalls, store_failed, content>>
    /\ UNCHANGED session

\* mutant of StoreFail: the failure is reported like a search without matches
StoreFailAsNoMatch ==
    /\ pc = "store"
    /\ storeQueries' = storeQueries + 1
    /\ outcome' = Result("No resumes match the criteria.", <<>>)
    /\ store_failed' = TRUE
    /\ pc' = "done"
    /\ UNCHANGED <<store, request, mongo_q, candidates, oracleCalls, content>>
    /\ UNCHANGED session

\* mutant of StoreFail: the failure is swallowed and the ranking goes on
StoreFailThenRank ==
    /\ pc = "store"
    /\ storeQueries' = storeQueries + 1
    /\ store_failed' = TRUE
    /\ pc' = "oracle"
    /\ UNCHANGED <<store, request, mongo_q, candidates, outcome, oracleCalls, content>>
    /\ UNCHANGED session

\* the store query raises: no connection, or the query fails while it runs
StoreFail ==
    /\ pc = "store"
    /\ storeQueries' = storeQueries + 1
    /\ outcome' = Error(IF request.impl = "app1" THEN "exception" ELSE "DB error")
    /\ store_failed' = TRUE
    /\ pc' = "done"
    /\ UNCHANGED <<store, request, mongo_q, candidates, oracleCalls, content>>
    /\ UNCHANGED session

\* the oracle answers and query_db returns
OracleReply(reply) ==
    /\ pc = "oracle"
    /\ oracleCalls' = oracleCalls + 1
    /\ outcome' = IF request.impl = "tools" THEN ToolsRanked(candidates, reply)
                  ELSE AppRanked(candidates, reply)
    /\ content' = reply
    /\ pc' = "done"
    /\ UNCHANGED <<store, request, mongo_q, candidates, storeQueries, store_failed>>
    /\ UNCHANGED session

\* mutant of OracleRaise: the pool is returned as it was retrieved
OracleRaiseKeepsPool ==
    /\ pc = "oracle"
    /\ oracleCalls' = oracleCalls + 1
    /\ outcome' = Result("", candidates)
    /\ content' = Reply("raised", {})
    /\ pc' = "done"
    /\ UNCHANGED <<store, request, mongo_q, candidates, storeQueries, store_failed>>
    /\ UNCHANGED session

\* chat.completions.create raises (network failure, timeout)
OracleRaise ==
    /\ pc = "oracle"
    /\ oracleCalls' = oracleCalls + 1
    /\ outcome' = Error("exception")
    /\ content' = Reply("raised", {})
    /\ pc' = "done"
    /\ UNCHANGED <<store, request, mongo_q, candidates, storeQueries, store_failed>>
    /\ UNCHANGED session

\* the caller has taken the returned dictionary; the locals of the call are gone
Return ==
    /\ pc = "done"
    /\ pc' = "idle"
    /\ request' = NoRequest
    /\ mongo_q' = Filter(<<>>, <<>>)
    /\ candidates' = <<>>
    /\ outcome' = NoOutcome
    /\ storeQueries' = 0
    /\ oracleCalls' = 0
    /\ store_failed' = FALSE
    /\ content' = NoReply
    /\ UNCHANGED store
    /\ UNCHANGED session

(***************************************************************************)
(* The pipeline specification: stores of up to MaxStore documents, every   *)
(* implementation, explicit and default top_k, and oracle replies that     *)
(* name stored, unstored and unpooled resumeIds.                           *)
(***************************************************************************)
IdOf(i) == "r" \o ToString(i)

PipelineDoc(i) ==
    Doc(IdOf(i), Str(IF i % 2 = 1 THEN "usa" ELSE "india"),
        <<Job("software developer", Num(2))>>, <<Skill("python")>>, <<"sql">>, Missing)

PipelineStores == {[i \in 1..n |-> PipelineDoc(i)] : n \in 0..MaxStore}

TopKDefault(impl) ==
    CASE impl = "tools" -> ToolsTopKDefault
      [] impl = "app" -> AppTopKDefault
      [] OTHER -> App1TopKDefault

DefaultMethod(impl) == IF impl = "app1" THEN "basic" ELSE ""

PipelineRequests ==
    {Request(impl, country, Null, Null, <<>>, <<>>, top_k, DefaultMethod(impl)) :
        impl \in {"tools", "app", "app1"},
        country \in {"", "usa"},
        top_k \in 1..MaxTopK \cup {ToolsTopKDefault, AppTopKDefault}}

ForeignId == "x9"

PoolIds(pool) == {pool[i].resumeId : i \in DOMAIN pool}

MalformedReplies == {Reply(k, {}) : k \in {"notjson", "nonobject", "nokey", "null"}}

PipelineReplies ==
    MalformedReplies \cup
    {Reply("ids", picked \cup rest) :
        picked \in SUBSET ({IdOf(i) : i \in 1..MaxNamed} \cup {ForeignId}),
        rest \in {{}, PoolIds(candidates)}}

Init ==
    /\ store \in PipelineStores
    /\ pc = "idle"
    /\ request = NoRequest
    /\ mongo_q = Filter(<<>>, <<>>)
    /\ candidates = <<>>
    /\ outcome = NoOutcome
    /\ storeQueries = 0
    /\ oracleCalls = 0
    /\ store_failed = FALSE
    /\ content = NoReply
    /\ NoSession

Next ==
    \/ \E req \in PipelineRequests : Call(req)
    \/ StoreOk
    \/ StoreFail
    \/ \E reply \in PipelineReplies : OracleReply(reply)
    \/ OracleRaise
    \/ Return

Spec == Init /\ [][Next]_vars

(***************************************************************************)
(* The filter specification: the same actions over small stores whose      *)
(* documents vary in one field group at a time (country, skills and        *)
(* keywords, job titles, durations and totalExperience), and requests that *)
(* vary in one criterion at a time.                                        *)
(***************************************************************************)
CountryDocs ==
    {Doc("r1", c, <<>>, <<>>, <<>>, Missing) :
        c \in {Str("USA"), Str("usa"), Str("United States"), Str("united states"),
               Str("india"), Str("India"), Missing}}

SkillDocs ==
    {Doc("r1", Str("usa"), <<>>, skills, keywords, Missing) :
        skills \in {<<>>, <<Skill("mysql")>>, <<Skill("python")>>,
                    <<Skill("sql"), Skill("python")>>},
        keywords \in {<<>>, <<"postgresql">>, <<"python">>, <<"SQL">>}}

TitleDocs ==
    {Doc("r1", Str("usa"), jobs, <<>>, <<>>, Missing) :
        jobs \in {<<>>,
                  <<Job("software engineer", Num(1))>>,
                  <<Job("backend dev", Num(1))>>,
                  <<Job("software engineer", Num(1)), Job("backend dev", Num(1))>>,
                  <<Job("Senior Software Developer", Num(1))>>}}

DurationLists ==
    {<<>>,
     <<Str("2"), Str("bad"), Null>>,
     <<Num(2), Num(2)>>,
     <<Str("bad"), Str("3")>>,
     <<Missing, Num(1)>>}

ExperienceDoc(id, durations, total) ==
    Doc(id, Str("usa"), [i \in DOMAIN durations |-> Job("developer", durations[i])],
        <<>>, <<>>, total)

ExperienceDocs ==
    {ExperienceDoc("r1", ds, total) :
        ds \in DurationLists, total \in {Missing, Num(1), Num(MaxYears + 1)}}

FilterStores ==
    {<<d>> : d \in CountryDocs \cup SkillDocs \cup TitleDocs \cup ExperienceDocs}
    \cup {<<ExperienceDoc("r1", d1, Missing), ExperienceDoc("r2", d2, Missing)>> :
              d1 \in DurationLists, d2 \in DurationLists}

Impls == {"tools", "app", "app1"}

Methods(impl) == IF impl = "app1" THEN {"basic", "strict", "balanced", "relaxed"} ELSE {""}

Years == {Null} \cup {Num(n) : n \in 0..MaxYears}

FilterRequests ==
    {Request(impl, country, Null, Null, <<>>, <<>>, TopKDefault(impl), DefaultMethod(impl)) :
        impl \in Impls,
        country \in {"united states", "USA", " India ", "United States", "germany"}}
    \cup
    UNION {{Request(impl, "", Null, Null, <<>>, skills, TopKDefault(impl), method) :
               method \in Methods(impl),
               skills \in {<<"sql">>, <<"python">>, <<"sql", "python">>, <<"SQL">>,
                           <<"rust">>, <<"Rust">>}}
           : impl \in Impls}
    \cup
    UNION {{Request(impl, "", Null, Null, titles, <<>>, TopKDefault(impl), method) :
               method \in Methods(impl),
               titles \in {<<"software developer">>, <<"backend developer">>,
                           <<"software developer", "backend developer">>,
                           <<"Software Developer">>}}
           : impl \in Impls}
    \cup
    {Request(impl, "", min, max, <<>>, <<>>, TopKDefault(impl), DefaultMethod(impl)) :
        impl \in Impls, min \in Years, max \in Years}

FilterReplies ==
    {Reply("notjson", {}), Reply("nokey", {}), Reply("ids", PoolIds(candidates))}

FilterInit ==
    /\ store \in FilterStores
    /\ pc = "idle"
    /\ request = NoRequest
    /\ mongo_q = Filter(<<>>, <<>>)
    /\ candidates = <<>>
    /\ outcome = NoOutcome
    /\ storeQueries = 0
    /\ oracleCalls = 0
    /\ store_failed = FALSE
    /\ content = NoReply
    /\ NoSession

FilterNext ==
    \/ \E req \in FilterRequests : Call(req)
    \/ StoreOk
    \/ StoreFail
    \/ \E reply \in FilterReplies : OracleReply(reply)
    \/ OracleRaise
    \/ Return

FilterSpec == FilterInit /\ [][FilterNext]_vars

(***************************************************************************)
(* Properties of the pipeline (checked under Spec).                        *)
(***************************************************************************)
QueryDb == request.impl \in {"tools", "app"}

\* C1: every record in the results of query_db is a record of that call's candidate
\* pool, whatever resumeIds the oracle names
C1_ResultsWithinPool ==
    QueryDb =>
        /\ Range(outcome.results) \subseteq Range(candidates)
        /\ PoolIds(outcome.results) \subseteq PoolIds(candidates)

\* the oracle named a resumeId unknown to the store and one stored outside the pool,
\* and the call still returned records
C1_Witness ==
    /\ QueryDb /\ pc = "done" /\ content.kind = "ids"
    /\ ForeignId \in content.ids
    /\ content.ids \cap (PoolIds(store) \ PoolIds(candidates)) # {}
    /\ outcome.results # <<>>

Malformed == content.kind \in {"notjson", "nonobject", "nokey", "null"}

EmptyResult == outcome.kind = "ok" /\ outcome.results_count = 0 /\ outcome.results = <<>>

ErrorWithoutResults ==
    outcome.kind = "error" /\ outcome.results_count = 0 /\ outcome.results = <<>>

C3_StoreFailureAborts ==
    /\ storeQueries <= 1
    /\ store_failed =>
          /\ pc = "done"
          /\ storeQueries = 1
          /\ oracleCalls = 0
          /\ content = NoReply
          /\ ErrorWithoutResults
          /\ QueryDb => outcome.category = "DB error"

\* the store query of a query_db call failed although the store holds documents
C3_Witness == QueryDb /\ store_failed /\ pc = "done" /\ Len(store) > 0

\* C4 as stated: the candidate pool never holds more than top_k records
C4_PoolWithinTopK == pc \in {"oracle", "done"} => Len(candidates) <= request.top_k

\* C5 as stated: the ranked result of query_db holds at most 10 records
C5_RankedAtMostTen == (QueryDb /\ pc = "done") => Len(outcome.results) <= RankedCap

(***************************************************************************)
(* Properties of the compiled filters (checked under FilterSpec).          *)
(***************************************************************************)
\* the store has answered the running request's query
Answered == pc \in {"oracle", "done"} /\ storeQueries = 1 /\ ~store_failed

InPool(doc) == doc \in Range(candidates)

Given(v) == v.t = "num"

NoCountry == request.country = ""
NoTitles == request.job_titles = <<>>
NoSkills == request.skills = <<>>
NoExperience == ~Given(request.min_experience_years) /\ ~Given(request.max_experience_years)

\* the alias bucket of a requested term: its synonym bucket plus the term itself
Aliases(term, table) ==
    IF request.impl = "tools" THEN variants_expand(<<term>>, table)
    ELSE expand(<<term>>, table)

SkillNames(doc) == {doc.skills[i].skillName : i \in DOMAIN doc.skills}
Titles(doc) == {doc.jobExperiences[i].title : i \in DOMAIN doc.jobExperiences}

\* some alias of the skill is among the document's skill names or keywords
ShowsSkill(doc, skill) ==
    Aliases(skill, SKILL_VARIANTS) \cap (SkillNames(doc) \cup Range(doc.keywords)) # {}

\* C6: a record passes the skill criteria of query_db iff every requested skill has
\* an alias among the record's skill names or keywords
C6_SkillsAndOfOrs ==
    (QueryDb /\ Answered) =>
        \A i \in DOMAIN store :
            /\ InPool(store[i]) =>
                  \A k \in DOMAIN request.skills : ShowsSkill(store[i], request.skills[k])
            /\ (NoCountry /\ NoTitles /\ NoExperience) =>
                  (InPool(store[i]) <=>
                      \A k \in DOMAIN request.skills :
                          ShowsSkill(store[i], request.skills[k]))

\* query_db of src/tools.py asked for sql and python and pooled a record that shows
\* sql only by a keyword alias and python only by a skill name
C6_Witness ==
    /\ request.impl = "tools" /\ Answered
    /\ request.skills = <<"sql", "python">>
    /\ \E i \in DOMAIN store :
          /\ InPool(store[i])
          /\ SkillNames(store[i]) = {"python"}
          /\ Range(store[i].keywords) = {"postgresql"}

\* C7 as stated: in both versions of query_db a pooled record holds, for every
\* requested title, a job title that is an alias of it
C7_EveryTitleRequired ==
    (QueryDb /\ Answered) =>
        \A i \in DOMAIN store :
            InPool(store[i]) =>
                \A k \in DOMAIN request.job_titles :
                    Aliases(request.job_titles[k], TITLE_VARIANTS) \cap Titles(store[i]) # {}

\* the total experience of the claims: the sum of the job durations read as numbers,
\* a missing, null or non-numeric duration counting as 0
ClaimedTotal(doc) ==
    SumSeq([i \in DOMAIN doc.jobExperiences |-> ConvertOrZero(doc.jobExperiences[i].duration)])

WithinBounds(doc) ==
    /\ Given(request.min_experience_years) =>
          ClaimedTotal(doc) >= request.min_experience_years.n
    /\ Given(request.max_experience_years) =>
          ClaimedTotal(doc) <= request.max_experience_years.n

\* C8 as stated: a record passes the experience clauses of query_db iff its summed
\* experience lies within the requested minimum and maximum
C8_ExperienceWithinBounds ==
    (QueryDb /\ Answered) =>
        \A i \in DOMAIN store :
            /\ InPool(store[i]) => WithinBounds(store[i])
            /\ (NoCountry /\ NoTitles /\ NoSkills) =>
                  (WithinBounds(store[i]) => InPool(store[i]))

\* C9 as stated: the minimum is compared against the sum of all durations read as
\* numbers (unparsable ones as 0); the comparison never fails and never drops a record
\* whose sum reaches the minimum
C9_MinimumAgainstSum ==
    (NoCountry /\ NoTitles /\ NoSkills /\ ~Given(request.max_experience_years)
     /\ PositiveNumber(request.min_experience_years)) =>
        /\ pc = "store" => Find(store, mongo_q, FindLimit(request)).ok
        /\ Answered =>
              \A i \in DOMAIN store :
                  InPool(store[i]) <=>
                      ClaimedTotal(store[i]) >= request.min_experience_years.n

\* C10 as stated: a record passes the country clause iff its country equals, ignoring
\* letter case, some alias of the requested country's bucket
C10_CountryIgnoringCase ==
    (Answered /\ ~NoCountry /\ NoTitles /\ NoSkills /\ NoExperience) =>
        \A i \in DOMAIN store :
            InPool(store[i]) <=>
                /\ store[i].country.t = "str"
                /\ \E alias \in CountryValues(request.country) :
                      Lower(store[i].country.s) = Lower(alias)

(***************************************************************************)
(* Properties of expand (checked under FilterSpec, whose requests name     *)
(* terms that are keys of a table, keys in another letter case, and terms  *)
(* of no table).                                                           *)
(***************************************************************************)
\* C11 as stated: the alias set that expand of src/app.py builds for a requested
\* term holds the trimmed, lower-cased form of the term, whether or not that form is
\* a key of the table
C11_ExpandHoldsNormalizedTerm ==
    (request.impl = "app" /\ pc # "idle") =>
        /\ \A k \in DOMAIN request.skills :
              /\ mongo_q.and[k].args[1].vals = expand(<<request.skills[k]>>, SKILL_VARIANTS)
              /\ Lower(Strip(request.skills[k])) \in mongo_q.and[k].args[1].vals
        /\ \A k \in DOMAIN request.job_titles :
              Lower(Strip(request.job_titles[k]))
                  \in expand(<<request.job_titles[k]>>, TITLE_VARIANTS)

(***************************************************************************)
(* Absent criteria (checked under FilterSpec).                             *)
(***************************************************************************)
\* the clause, or a clause under its $or, reads one of the fields
Mentions(c, fields) ==
    \/ c.field \in fields
    \/ \E i \in DOMAIN c.args : c.args[i].field \in fields

\* the clause, or a clause under its $or, is one of the comparisons
Compares(c, ops) ==
    \/ c.op \in ops
    \/ \E i \in DOMAIN c.args : c.args[i].op \in ops

NoClause(P(_)) == \A i \in DOMAIN Clauses(mongo_q) : ~P(Clauses(mongo_q)[i])

NoCriteria == NoCountry /\ NoTitles /\ NoSkills /\ NoExperience

\* C12: an absent criterion adds no clause to the compiled filter; with no criteria
\* the filter is empty and the pool is the whole store; and every pooled record
\* satisfies every clause of the filter
C12_AbsentCriteriaAddNoClause ==
    pc # "idle" =>
        /\ NoCountry => NoClause(LAMBDA c : Mentions(c, {"country"}))
        /\ ~Given(request.min_experience_years) =>
              NoClause(LAMBDA c : Compares(c, {"field_gte", "expr_gte"}))
        /\ ~Given(request.max_experience_years) =>
              NoClause(LAMBDA c : Compares(c, {"field_lte", "expr_lte"}))
        /\ NoTitles => NoClause(LAMBDA c : Mentions(c, {"jobExperiences.title"}))
        /\ NoSkills => NoClause(LAMBDA c : Mentions(c, {"skills.skillName", "keywords"}))
        /\ NoCriteria => Clauses(mongo_q) = <<>>
        /\ (NoCriteria /\ Answered) => candidates = store
        /\ Answered =>
              \A i \in DOMAIN candidates :
                  \A k \in DOMAIN Clauses(mongo_q) :
                      EvalClause(candidates[i], Clauses(mongo_q)[k]) = "T"

\* query_db of src/tools.py was called with no criteria and pooled a store of two
\* records in full
C12_Witness ==
    /\ request.impl = "tools" /\ NoCriteria /\ Answered
    /\ Len(store) = 2 /\ candidates = store

(***************************************************************************)
(* No match against store failure (checked under Spec).                    *)
(***************************************************************************)
\* the records of the pool that the oracle's reply names
Selection == BestResumes(candidates, TopResumeIds(content))

\* the oracle answered with a JSON object that json.loads and .get accept
Selected == content.kind \in {"ids", "nokey"}

\* the store answered and no candidate qualifies: query_db of src/tools.py found the
\* pool empty, or the oracle's selection holds no record of the pool
NoneQualifies ==
    /\ QueryDb /\ pc = "done" /\ storeQueries = 1 /\ ~store_failed
    /\ \/ request.impl = "tools" /\ candidates = <<>>
       \/ Selected /\ Selection = <<>>

\* C13: when the store answers and no candidate qualifies, query_db returns a result
\* that is no error, with results_count 0, no results and a message; when the store
\* query fails it returns the error "DB error"; the two outcomes differ
C13_NoMatchIsNotAnError ==
    /\ NoneQualifies => (EmptyResult /\ outcome.message # "")
    /\ (QueryDb /\ store_failed) =>
          (outcome = Error("DB error") /\ outcome.category = "DB error")
    /\ (QueryDb /\ pc = "done" /\ EmptyResult) => ~store_failed
    /\ \A n \in 0..MaxStore :
          Error("DB error") \notin
              {Result("No resumes match the criteria.", <<>>),
               Result("Found 0 resumes that meet ALL criteria out of " \o ToString(n)
                      \o " initial matches.", <<>>),
               Result("0 resumes after scoring.", <<>>)}

\* query_db of src/tools.py pooled records, the oracle named only resumeIds outside
\* the pool, and the call reported zero resumes
C13_Witness ==
    /\ request.impl = "tools" /\ NoneQualifies
    /\ candidates # <<>> /\ content.ids # {}
    /\ outcome.message = "Found 0 resumes that meet ALL criteria out of "
                             \o ToString(Len(candidates)) \o " initial matches."

(***************************************************************************)
(* Failure of the oracle call (checked under Spec).                        *)
(***************************************************************************)
\* C18: while the oracle call of query_db is pending (or was abandoned) no record has
\* been returned; if the call raises, the outcome is an error without records; and
\* every results list returned is the call's own pool filtered by the resumeIds of
\* the oracle's reply
C18_OracleFailureDiscardsPool ==
    QueryDb =>
        /\ pc = "oracle" => (outcome = NoOutcome /\ outcome.results = <<>>)
        /\ (pc = "done" /\ content.kind = "raised") => ErrorWithoutResults
        /\ pc = "done" =>
              outcome.results = (IF outcome.kind = "ok" THEN Selection ELSE <<>>)

\* the oracle call raised after the store had returned a non-empty pool
C18_Witness ==
    /\ QueryDb /\ pc = "done" /\ content.kind = "raised"
    /\ storeQueries = 1 /\ ~store_failed /\ candidates # <<>>

(***************************************************************************)
(* Regular expressions of the response parser (re.search, re.findall).     *)
(* A pattern is a sequence of items, one record shape for every item:      *)
(*   k     "lit"    the literal lit                                        *)
(*         "rep"    lo to hi characters of the class cs (hi = 0: no upper  *)
(*                  limit), greedy, or lazy when lazy is set               *)
(*         "opt"    the optional group xs, greedy                          *)
(*         "open", "close"   the parentheses of capture group g            *)
(*         "eos"    $ without re.MULTILINE                                 *)
(* Matching is Python's backtracking search: the ways through the pattern  *)
(* are ordered (a greedy repetition prefers the longer run, a lazy one the *)
(* shorter, an optional group prefers to be taken) and the first way that  *)
(* reaches the end of the pattern is the match.  A thread is one way       *)
(* through the items read so far: key lists the rank of each choice made,  *)
(* pos is the position reached, caps the groups captured.                  *)
(***************************************************************************)
Lit(lit) ==
    [k |-> "lit", cs |-> "", lit |-> lit, g |-> 0, lo |-> 0, hi |-> 0, lazy |-> FALSE,
     xs |-> <<>>]
Rep(cs, lo, hi, lazy) ==
    [k |-> "rep", cs |-> cs, lit |-> "", g |-> 0, lo |-> lo, hi |-> hi, lazy |-> lazy,
     xs |-> <<>>]
One(cs) == Rep(cs, 1, 1, FALSE)
Plus(cs) == Rep(cs, 1, 0, FALSE)
Star(cs) == Rep(cs, 0, 0, FALSE)
LazyStar(cs) == Rep(cs, 0, 0, TRUE)
Opt(xs) ==
    [k |-> "opt", cs |-> "", lit |-> "", g |-> 0, lo |-> 0, hi |-> 0, lazy |-> FALSE,
     xs |-> xs]
Open(g) ==
    [k |-> "open", cs |-> "", lit |-> "", g |-> g, lo |-> 0, hi |-> 0, lazy |-> FALSE,
     xs |-> <<>>]
Close(g) ==
    [k |-> "close", cs |-> "", lit |-> "", g |-> g, lo |-> 0, hi |-> 0, lazy |-> FALSE,
     xs |-> <<>>]
Eos ==
    [k |-> "eos", cs |-> "", lit |-> "", g |-> 0, lo |-> 0, hi |-> 0, lazy |-> FALSE,
     xs |-> <<>>]

Letters ==
    {CharAt(UpperLetters, i) : i \in 1..Len(UpperLetters)}
    \cup {CharAt(LowerLetters, i) : i \in 1..Len(LowerLetters)}

\* membership of a character in a class; ic is re.IGNORECASE
\*   "upper" [A-Z]   "lower" [a-z]   "digit" \d   "space" \s   "notnl" [^\n] and .
\*   "notstar" [^*]   "notquote" [^"]   "any" . under re.DOTALL
InClass(c, cs, ic) ==
    CASE cs = "upper" -> IF ic THEN c \in Letters ELSE IndexIn(c, UpperLetters) > 0
      [] cs = "lower" -> IF ic THEN c \in Letters ELSE IndexIn(c, LowerLetters) > 0
      [] cs = "digit" -> IndexIn(c, Digits) > 0
      [] cs = "space" -> IsSpace(c)
      [] cs = "notnl" -> c # "\n"
      [] cs = "notstar" -> c # "*"
      [] cs = "notquote" -> c # "\""
      [] cs = "any" -> TRUE
      [] OTHER -> FALSE

\* Body(value), the value computed once
With(value, Body(_)) == CHOOSE r \in {Body(v) : v \in {value}} : TRUE

Min(S) == CHOOSE x \in S : \A y \in S : x <= y
Max(S) == CHOOSE x \in S : \A y \in S : x >= y

\* the first position from pos on that holds no character of the class
RunEnd(text, pos, cs, ic) ==
    CHOOSE p \in pos..(Len(text) + 1) :
        /\ p = Len(text) + 1 \/ ~InClass(CharAt(text, p), cs, ic)
        /\ \A q \in pos..(p - 1) : InClass(CharAt(text, q), cs, ic)

\* how many characters of the class follow at position pos, at most hi (0: no limit)
RunLength(text, pos, cs, ic, hi) ==
    IF hi = 1 THEN (IF pos <= Len(text) /\ InClass(CharAt(text, pos), cs, ic) THEN 1 ELSE 0)
    ELSE With(RunEnd(text, pos, cs, ic) - pos, LAMBDA n : IF hi > 0 /\ n > hi THEN hi ELSE n)

\* the literal at position pos
LitAt(text, pos, lit, ic) ==
    /\ pos + Len(lit) - 1 <= Len(text)
    /\ \A j \in 1..Len(lit) :
          IF ic THEN LowerChar(CharAt(text, pos + j - 1)) = LowerChar(CharAt(lit, j))
          ELSE CharAt(text, pos + j - 1) = CharAt(lit, j)

\* the groups of a match: where each began and what each captured
NoCaps == [b |-> [g \in 1..6 |-> 0], s |-> [g \in 1..6 |-> ""]]

NoMatch == [ok |-> FALSE, pos |-> 0, caps |-> NoCaps]

Thread(pos) == [key |-> <<>>, pos |-> pos, caps |-> NoCaps]

\* the threads after one item other than an optional group
Step(it, threads, text, ic) ==
    CASE it.k = "lit" ->
            {[t EXCEPT !.pos = t.pos + Len(it.lit)] :
                t \in {u \in threads : LitAt(text, u.pos, it.lit, ic)}}
      [] it.k = "rep" ->
            UNION {{[t EXCEPT !.pos = t.pos + k,
                              !.key = Append(t.key, IF it.lazy THEN k ELSE n - k)] :
                       k \in it.lo..n} :
                   <<t, n>> \in {<<u, RunLength(text, u.pos, it.cs, ic, it.hi)>> :
                                    u \in threads}}
      [] it.k = "open" -> {[t EXCEPT !.caps.b[it.g] = t.pos] : t \in threads}
      [] it.k = "close" ->
            {[t EXCEPT !.caps.s[it.g] = SubSeq(text, t.caps.b[it.g], t.pos - 1)] :
                t \in threads}
      [] it.k = "eos" ->
            {t \in threads :
                \/ t.pos = Len(text) + 1
                \/ t.pos = Len(text) /\ CharAt(text, t.pos) = "\n"}
      [] OTHER -> {}

Chose(threads, rank) == {[t EXCEPT !.key = Append(t.key, rank)] : t \in threads}

\* the key a comes before the key b
Before(a, b) ==
    \E i \in 1..Min({Len(a), Len(b)}) : a[i] < b[i] /\ \A j \in 1..(i - 1) : a[j] = b[j]

First(threads) == CHOOSE t \in threads : \A u \in threads : u = t \/ Before(t.key, u.key)

\* threads at one position have the same ways ahead of them, so only the first of
\* them can become the match: the others are dropped
Leading(threads) ==
    IF Cardinality({t.pos : t \in threads}) = Cardinality(threads) THEN threads
    ELSE {First({u \in threads : u.pos = p}) : p \in {t.pos : t \in threads}}

RECURSIVE AdvanceOver(_, _, _, _, _, _)
\* the threads after the items lo..hi, one half of them after the other
AdvanceOver(items, lo, hi, threads, text, ic) ==
    IF lo > hi \/ threads = {} THEN threads
    ELSE IF lo < hi
    THEN With(AdvanceOver(items, lo, (lo + hi) \div 2, threads, text, ic),
              LAMBDA half : AdvanceOver(items, (lo + hi) \div 2 + 1, hi, half, text, ic))
    ELSE With(IF items[lo].k = "opt"
              THEN AdvanceOver(items[lo].xs, 1, Len(items[lo].xs), Chose(threads, 0),
                               text, ic)
                   \cup Chose(threads, 1)
              ELSE Step(items[lo], threads, text, ic),
              LAMBDA after : Leading(after))

\* the threads after a sequence of items
Advance(items, threads, text, ic) == AdvanceOver(items, 1, Len(items), threads, text, ic)

\* match the pattern at position pos: [ok, pos of the end, caps]
Run(items, text, pos, ic) ==
    With(Advance(items, {Thread(pos)}, text, ic),
         LAMBDA threads :
            IF threads = {} THEN NoMatch
            ELSE With(First(threads),
                      LAMBDA t : [ok |-> TRUE, pos |-> t.pos, caps |-> t.caps]))

\* the positions where the pattern matches
Hits(items, text, ic) ==
    {p \in 1..(Len(text) + 1) : Advance(items, {Thread(p)}, text, ic) # {}}

\* re.search: the match at the first position where the pattern matches
Search(items, text, ic) ==
    With(Hits(items, text, ic),
         LAMBDA hits : IF hits = {} THEN NoMatch ELSE Run(items, text, Min(hits), ic))

RECURSIVE Matches(_, _, _, _, _, _)
\* the captures of the successive non-overlapping matches from position pos on
Matches(items, text, hits, pos, ic, acc) ==
    IF \A p \in hits : p < pos THEN acc
    ELSE With(Run(items, text, Min({h \in hits : h >= pos}), ic),
              LAMBDA r : Matches(items, text, hits,
                                 IF r.pos > Min({h \in hits : h >= pos}) THEN r.pos
                                 ELSE Min({h \in hits : h >= pos}) + 1,
                                 ic, Append(acc, r.caps.s)))

\* re.findall
FindAll(items, text, ic) ==
    With(Hits(items, text, ic), LAMBDA hits : Matches(items, text, hits, 1, ic, <<>>))

(***************************************************************************)
(* process_response (src/utils.py, src/app.py): the response parser.       *)
(***************************************************************************)
\* one word of a name: [A-Z][a-z]+
NameWord == <<One("upper"), Plus("lower")>>

\* \s*\n<label>\s*([^\n]+)
PlainField(label, g) ==
    <<Star("space"), Lit("\n" \o label), Star("space"), Open(g), Plus("notnl"), Close(g)>>

\* the plain block grammar
\* ([A-Z][a-z]+ (?:[A-Z][a-z]+ )?(?:[A-Z][a-z]+)?)\s*\n\s*Email:\s*([^\n]+)\s*\n
\* Contact No:\s*([^\n]+)\s*\nLocation:\s*([^\n]+)\s*\nExperience:\s*([^\n]+)\s*\n
\* Skills:\s*([^\n]+)
PlainPattern ==
    <<Open(1)>> \o NameWord \o <<Lit(" "), Opt(NameWord \o <<Lit(" ")>>), Opt(NameWord),
      Close(1)>>
    \o <<Star("space"), Lit("\n"), Star("space"), Lit("Email:"), Star("space"),
         Open(2), Plus("notnl"), Close(2)>>
    \o PlainField("Contact No:", 3)
    \o PlainField("Location:", 4)
    \o PlainField("Experience:", 5)
    \o PlainField("Skills:", 6)

\* \s*\n\s*-\s+\*\*<label>\*\*\s+([^\n]+)
NumberedField(label, g) ==
    <<Star("space"), Lit("\n"), Star("space"), Lit("-"), Plus("space"),
      Lit("**" \o label \o "**"), Plus("space"), Open(g), Plus("notnl"), Close(g)>>

\* the numbered grammar
\* \d+\.\s+\*\*([^*]+)\*\*\s*\n\s*-\s+\*\*Email:\*\*\s+([^\n]+) ... \*\*Skills:\*\*\s+([^\n]+)
NumberedPattern ==
    <<Plus("digit"), Lit("."), Plus("space"), Lit("**"), Open(1), Plus("notstar"), Close(1),
      Lit("**")>>
    \o NumberedField("Email:", 2)
    \o NumberedField("Contact No:", 3)
    \o NumberedField("Location:", 4)
    \o NumberedField("Experience:", 5)
    \o NumberedField("Skills:", 6)

\* ^(.*?)\n\n([A-Z][a-z]+.*?)\n\nEmail:   with re.DOTALL
IntroPattern ==
    <<Open(1), LazyStar("any"), Close(1), Lit("\n\n"), Open(2), One("upper"), Plus("lower"),
      LazyStar("any"), Close(2), Lit("\n\nEmail:")>>

\* (These candidates.*?)\s*$   with re.DOTALL
ConclusionPattern ==
    <<Open(1), Lit("These candidates"), LazyStar("any"), Close(1), Star("space"), Eos>>

RECURSIVE Split(_, _)
\* str.split(sep) for a one-character separator
Split(s, sep) ==
    IF \E p \in 1..Len(s) : CharAt(s, p) = sep
    THEN LET p == CHOOSE q \in 1..Len(s) :
                      CharAt(s, q) = sep /\ \A r \in 1..(q - 1) : CharAt(s, r) # sep
         IN <<SubSeq(s, 1, p - 1)>> \o Split(SubSeq(s, p + 1, Len(s)), sep)
    ELSE <<s>>

\* [e.strip() for e in s.split(",")]
StripAll(xs) == [i \in DOMAIN xs |-> Strip(xs[i])]

\* the detection rule
IsListing(text) ==
    /\ Contains(text, "Here are some")
    /\ (Contains(text, "Experience:") \/ Contains(text, "experience:"))
    /\ (Contains(text, "Skills:") \/ Contains(text, "skills:"))

\* a candidate record as the parser builds it; has_keywords tells whether the
\* dictionary has a "keywords" key (src/utils.py) or not (src/app.py); the
\* "resumeId" key is absent until the backfill sets it: resumeId = "" stands for that;
\* has_jobsMatched tells whether the render loop has set the "jobsMatched" key
Resume(name, email, contactNo, location, experience, skills, has_keywords) ==
    [name |-> name, email |-> email, contactNo |-> contactNo, location |-> location,
     experience |-> experience, skills |-> skills,
     has_keywords |-> has_keywords, keywords |-> <<>>, resumeId |-> "",
     has_jobsMatched |-> FALSE, jobsMatched |-> 0]

\* matches of the plain block grammar, else of the numbered grammar
ResumeMatches(text) ==
    With(FindAll(PlainPattern, text, TRUE),
         LAMBDA matches :
            IF matches # <<>> THEN matches ELSE FindAll(NumberedPattern, text, FALSE))

\* the dictionary process_response returns; impl is "utils" or "app".  The dictionary
\* of a non-listing has only the keys is_resume_response and full_text.
process_response(text, impl) ==
    IF IsListing(text)
    THEN [is_resume_response |-> TRUE,
          intro_text |->
              With(Run(IntroPattern, text, 1, FALSE),
                   LAMBDA intro_match :
                      IF intro_match.ok THEN Strip(intro_match.caps.s[1]) ELSE ""),
          resumes |->
              With(ResumeMatches(text),
                   LAMBDA matches :
                      [i \in DOMAIN matches |->
                          Resume(Strip(matches[i][1]), Strip(matches[i][2]),
                                 Strip(matches[i][3]), Strip(matches[i][4]),
                                 StripAll(Split(matches[i][5], ",")),
                                 StripAll(Split(matches[i][6], ",")),
                                 impl = "utils")]),
          conclusion_text |->
              With(Search(ConclusionPattern, text, FALSE),
                   LAMBDA conclusion_match :
                      IF conclusion_match.ok THEN Strip(conclusion_match.caps.s[1])
                      ELSE ""),
          full_text |-> text]
    ELSE [is_resume_response |-> FALSE, intro_text |-> "", resumes |-> <<>>,
          conclusion_text |-> "", full_text |-> text]

(***************************************************************************)
(* The session helpers (src/utils.py, src/app.py, src/tools.py).           *)
(* A dictionary whose order matters (st.session_state.resume_ids) is a     *)
(* sequence of [name, resumeId] entries in insertion order; one whose      *)
(* order does not matter (processed_responses) is a function on its keys.  *)
(***************************************************************************)
RECURSIVE Join(_, _)
\* sep.join(xs)
Join(xs, sep) ==
    IF xs = <<>> THEN ""
    ELSE IF Len(xs) = 1 THEN xs[1]
    ELSE xs[1] \o sep \o Join(Tail(xs), sep)

\* d[k] = v on a function
Put(d, k, v) == IF k \in DOMAIN d THEN [d EXCEPT ![k] = v] ELSE (k :> v) @@ d

Entry(name, resumeId) == [name |-> name, resumeId |-> resumeId]

\* item.get("name") of an object without a "name" key: Python's None, here a value
\* that no name of a reply or of a stored document equals
PyNone == "<None>"

\* resume_ids[name] = resumeId: a known key keeps its place, a new key goes last
DictSet(d, name, resumeId) ==
    IF \E i \in DOMAIN d : d[i].name = name
    THEN [i \in DOMAIN d |-> IF d[i].name = name THEN Entry(name, resumeId) ELSE d[i]]
    ELSE Append(d, Entry(name, resumeId))

RECURSIVE DictUpdate(_, _)
\* resume_ids.update(entries)
DictUpdate(d, entries) ==
    IF entries = <<>> THEN d
    ELSE DictUpdate(DictSet(d, Head(entries).name, Head(entries).resumeId), Tail(entries))

\* <!--RESUME_META:(.*?)-->
MetaPattern ==
    <<Lit("<!--RESUME_META:"), Open(1), LazyStar("notnl"), Close(1), Lit("-->")>>

\* one object of the annotation, as json.dumps writes it
ObjectPattern ==
    <<Lit("{\"name\": \""), Open(1), Star("notquote"), Close(1),
      Lit("\", \"resumeId\": \""), Open(2), Star("notquote"), Close(2), Lit("\"}")>>

\* one object of an annotation that gives a resumeId and no name
NamelessPattern ==
    <<Lit("{\"resumeId\": \""), Open(1), Star("notquote"), Close(1), Lit("\"}")>>

\* json.dumps of a list of {"resumeId"} objects
DumpsNameless(ids) ==
    "[" \o Join([i \in DOMAIN ids |-> "{\"resumeId\": \"" \o ids[i] \o "\"}"], ", ") \o "]"

\* json.dumps of a list of {"name", "resumeId"} objects
Dumps(items) ==
    "[" \o Join([i \in DOMAIN items |->
                    "{\"name\": \"" \o items[i].name \o "\", \"resumeId\": \""
                    \o items[i].resumeId \o "\"}"], ", ") \o "]"

\* json.loads of the annotation, with item.get("name") and item.get("resumeId") of
\* every object: the objects of a text in the layout json.dumps writes, all with a
\* name or all without; any other text counts as one json.loads rejects
Loads(s) ==
    With(FindAll(ObjectPattern, s, FALSE),
         LAMBDA found :
            IF Dumps([i \in DOMAIN found |-> Entry(found[i][1], found[i][2])]) = s
            THEN [ok |-> TRUE,
                  items |-> [i \in DOMAIN found |-> Entry(found[i][1], found[i][2])]]
            ELSE With(FindAll(NamelessPattern, s, FALSE),
                      LAMBDA nameless :
                         IF DumpsNameless([i \in DOMAIN nameless |-> nameless[i][1]]) = s
                         THEN [ok |-> TRUE,
                               items |-> [i \in DOMAIN nameless |->
                                             Entry(PyNone, nameless[i][1])]]
                         ELSE [ok |-> FALSE, items |-> <<>>]))

\* {item.get("name"): item.get("resumeId") for item in meta_data if item.get("resumeId")}
extract_resume_ids_from_response(response_text) ==
    With(Search(MetaPattern, response_text, FALSE),
         LAMBDA meta_match :
            IF meta_match.ok
            THEN With(Loads(meta_match.caps.s[1]),
                      LAMBDA meta_data :
                         IF meta_data.ok
                         THEN DictUpdate(<<>>, SelectSeq(meta_data.items,
                                                         LAMBDA item : item.resumeId # ""))
                         ELSE <<>>)
            ELSE <<>>)

RECURSIVE ReplaceAll(_, _, _)
\* s with every occurrence of old replaced by new
ReplaceAll(s, old, new) ==
    IF \E p \in 1..Len(s) : p + Len(old) - 1 <= Len(s) /\ SubSeq(s, p, p + Len(old) - 1) = old
    THEN With(Min({p \in 1..Len(s) :
                      p + Len(old) - 1 <= Len(s) /\ SubSeq(s, p, p + Len(old) - 1) = old}),
              LAMBDA p :
                 SubSeq(s, 1, p - 1) \o new
                 \o ReplaceAll(SubSeq(s, p + Len(old), Len(s)), old, new))
    ELSE s

\* an item of a job-match result
JobCount(resumeId, jobsMatched) == [resumeId |-> resumeId, jobsMatched |-> jobsMatched]

\* the resume_matches collection: per resumeId, the jobs the resume is matched to
resume_matches ==
    <<[resumeId |-> "r1", matches |-> <<"j1", "j2">>],
      [resumeId |-> "r3", matches |-> <<>>]>>

\* get_job_match_counts(resume_ids)["results"]: len(matches) of the first document
\* of each resumeId, 0 without one
get_job_match_counts(ids) ==
    [i \in DOMAIN ids |->
        JobCount(ids[i],
                 IF \E d \in DOMAIN resume_matches : resume_matches[d].resumeId = ids[i]
                 THEN Len(resume_matches[Min({d \in DOMAIN resume_matches :
                                                resume_matches[d].resumeId = ids[i]})].matches)
                 ELSE 0)]

\* "results":\s*(\[.*?\]) with the given quote character; dotall is re.DOTALL
ResultsPattern(quote, dotall) ==
    <<Lit(quote \o "results" \o quote \o ":"), Star("space"), Open(1), Lit("["),
      LazyStar(IF dotall THEN "any" ELSE "notnl"), Lit("]"), Close(1)>>

\* one object of a results list, as json.dumps writes it
CountPattern ==
    <<Lit("{\"resumeId\": \""), Open(1), Star("notquote"), Close(1),
      Lit("\", \"jobsMatched\": "), Open(2), Plus("digit"), Close(2), Lit("}")>>

\* json.dumps of a list of {"resumeId", "jobsMatched"} objects
DumpsCounts(items) ==
    "[" \o Join([i \in DOMAIN items |->
                    "{\"resumeId\": \"" \o items[i].resumeId \o "\", \"jobsMatched\": "
                    \o ToString(items[i].jobsMatched) \o "}"], ", ") \o "]"

\* json.loads of a results list: the objects of a text in the layout json.dumps
\* writes; any other text counts as one json.loads rejects
LoadsCounts(s) ==
    With(FindAll(CountPattern, s, FALSE),
         LAMBDA found :
            With([i \in DOMAIN found |->
                     JobCount(found[i][1], DigitsValue(found[i][2], 0))],
                 LAMBDA items :
                    IF DumpsCounts(items) = s THEN [ok |-> TRUE, items |-> items]
                    ELSE [ok |-> FALSE, items |-> <<>>]))

RECURSIVE StoreCounts(_, _)
\* job_match_data[resumeId] = item.get("jobsMatched", 0) for every item with a resumeId
StoreCounts(data, items) ==
    IF items = <<>> THEN data
    ELSE StoreCounts(IF Head(items).resumeId # ""
                     THEN Put(data, Head(items).resumeId, Head(items).jobsMatched)
                     ELSE data,
                     Tail(items))

\* the job-match counts a reply carries: [ok, items]; the input handler reads them
\* with double quotes, the Jobs button of src/design.py with single quotes that it
\* turns into double quotes before json.loads
ReplyCounts(response_text, button) ==
    IF Contains(response_text, "jobsMatched")
    THEN With(Search(ResultsPattern(IF button THEN "'" ELSE "\"", button),
                     response_text, FALSE),
              LAMBDA matches_match :
                 IF matches_match.ok
                 THEN LoadsCounts(IF button
                                  THEN ReplaceAll(matches_match.caps.s[1], "'", "\"")
                                  ELSE matches_match.caps.s[1])
                 ELSE [ok |-> FALSE, items |-> <<>>])
    ELSE [ok |-> FALSE, items |-> <<>>]

\* resume["jobsMatched"] = job_match_data[resume_id] for the records it has a count for
SetJobsMatched(resumes, jobs) ==
    [i \in DOMAIN resumes |->
        IF resumes[i].resumeId # "" /\ resumes[i].resumeId \in DOMAIN jobs
        THEN [resumes[i] EXCEPT !.has_jobsMatched = TRUE,
                                !.jobsMatched = jobs[resumes[i].resumeId]]
        ELSE resumes[i]]

\* a document of the resumes collection as the session code reads it; a missing
\* field is the empty string (or the empty list)
StoredResume(resumeId, name, fullName, email, contactNo, keywords) ==
    [resumeId |-> resumeId, name |-> name, fullName |-> fullName, email |-> email,
     contactNo |-> contactNo, keywords |-> keywords]

\* coll.find_one({"email": email, "contactNo": contactNo}): [found, doc]
FindOneByContact(docs, email, contactNo) ==
    IF \E i \in DOMAIN docs : docs[i].email = email /\ docs[i].contactNo = contactNo
    THEN [found |-> TRUE,
          doc |-> docs[Min({i \in DOMAIN docs :
                               docs[i].email = email /\ docs[i].contactNo = contactNo})]]
    ELSE [found |-> FALSE, doc |-> StoredResume("", "", "", "", "", <<>>)]

\* attach_hidden_resume_ids of src/utils.py, on one record
UtilsAttach(res, docs) ==
    LET hit == FindOneByContact(docs, res.email, res.contactNo)
    IN IF res.email # "" /\ res.contactNo # "" /\ hit.found
       THEN [res EXCEPT
                !.resumeId = IF hit.doc.resumeId # "" THEN hit.doc.resumeId ELSE @,
                !.keywords = IF hit.doc.keywords # <<>> THEN hit.doc.keywords ELSE @,
                !.has_keywords = IF hit.doc.keywords # <<>> THEN TRUE ELSE @]
       ELSE res

\* attach_hidden_resume_ids of src/app.py, on one record
AppAttach(res, docs) ==
    LET hit == FindOneByContact(docs, res.email, res.contactNo)
    IN IF res.resumeId = "" /\ hit.found /\ hit.doc.resumeId # ""
       THEN [res EXCEPT !.resumeId = hit.doc.resumeId]
       ELSE res

\* attach_hidden_resume_ids: impl is "utils" or "app"
attach_hidden_resume_ids(resume_list, docs, impl) ==
    [i \in DOMAIN resume_list |->
        IF impl = "utils" THEN UtilsAttach(resume_list[i], docs)
        ELSE AppAttach(resume_list[i], docs)]

UpperChar(c) ==
    IF IndexIn(c, LowerLetters) > 0 THEN CharAt(UpperLetters, IndexIn(c, LowerLetters)) ELSE c

\* str.capitalize()
Capitalize(s) ==
    IF s = "" THEN "" ELSE UpperChar(CharAt(s, 1)) \o Lower(SubSeq(s, 2, Len(s)))

\* f"{s:<width}" for a width of at most 30
PadRight(s, width) ==
    IF Len(s) >= width THEN s
    ELSE s \o SubSeq("                              ", 1, width - Len(s))

\* str(xs) of a list of strings without quotes or backslashes
PyRepr(xs) == "[" \o Join([i \in DOMAIN xs |-> "'" \o xs[i] \o "'"], ", ") \o "]"

\* item.items(): the keys of a record's dictionary in insertion order, with str(value)
Items(res) ==
    <<<<"name", res.name>>, <<"email", res.email>>, <<"contactNo", res.contactNo>>,
      <<"location", res.location>>, <<"experience", PyRepr(res.experience)>>,
      <<"skills", PyRepr(res.skills)>>>>
    \o (IF res.has_keywords THEN <<<<"keywords", PyRepr(res.keywords)>>>> ELSE <<>>)
    \o (IF res.resumeId # "" THEN <<<<"resumeId", res.resumeId>>>> ELSE <<>>)
    \o (IF res.has_jobsMatched THEN <<<<"jobsMatched", ToString(res.jobsMatched)>>>>
        ELSE <<>>)

\* the lines of one item: "Item i", the rule, one line per key, an empty line
ItemLines(res, i) ==
    <<"Item " \o ToString(i), "------------------------------">>
    \o [k \in DOMAIN Items(res) |->
           PadRight(Capitalize(Items(res)[k][1]), 15) \o ": " \o Items(res)[k][2]]
    \o <<"">>

RECURSIVE Flatten(_)
Flatten(xss) == IF xss = <<>> THEN <<>> ELSE Head(xss) \o Flatten(Tail(xss))

\* reformat_email_body(llm_output, intro, conclusion) for a list of records
reformat_email_body(llm_output, intro, conclusion) ==
    Join((IF intro # "" THEN <<Strip(intro) \o "\n">> ELSE <<>>)
         \o (IF llm_output # <<>>
             THEN Flatten([i \in DOMAIN llm_output |-> ItemLines(llm_output[i], i)])
             ELSE <<"[]", "">>)
         \o (IF conclusion # "" THEN <<Strip(conclusion)>> ELSE <<>>)
         \o <<"\nSent by ZappBot">>,
         "\n")

RECURSIVE Collapse(_)
\* every run of white space becomes one space
Collapse(s) ==
    IF s = "" THEN ""
    ELSE IF IsSpace(CharAt(s, 1))
    THEN IF Len(s) > 1 /\ IsSpace(CharAt(s, 2)) THEN Collapse(SubSeq(s, 2, Len(s)))
         ELSE " " \o Collapse(SubSeq(s, 2, Len(s)))
    ELSE CharAt(s, 1) \o Collapse(SubSeq(s, 2, Len(s)))

\* ' '.join(name.lower().split())
NameNorm(name) == Collapse(Strip(Lower(name)))

\* {field: {"$regex": pattern, "$options": "i"}} for a pattern of letters and spaces
RegexI(pattern, s) == Contains(Lower(s), Lower(pattern))

\* the dictionaries get_resume_id_by_name returns; finds counts the coll.find_one
\* calls the lookup made
Found(name, resumeId, finds) ==
    [found |-> TRUE, error |-> FALSE, name |-> name, resumeId |-> resumeId, finds |-> finds]

NotFound(finds) ==
    [found |-> FALSE, error |-> FALSE, name |-> "", resumeId |-> "", finds |-> finds]

\* {"error": str(e)}: k.lower() raised on a key that is None
Failed == [found |-> FALSE, error |-> TRUE, name |-> "", resumeId |-> "", finds |-> 0]

\* the DB lookup of get_resume_id_by_name
StoreLookup(name, docs) ==
    LET hits == {i \in DOMAIN docs :
                    RegexI(name, docs[i].name) \/ RegexI(name, docs[i].fullName)}
        doc == docs[Min(hits)]
    IN IF hits # {} /\ doc.resumeId # ""
       THEN Found(IF doc.name # "" THEN doc.name
                  ELSE IF doc.fullName # "" THEN doc.fullName ELSE name,
                  doc.resumeId, 1)
       ELSE NotFound(1)

\* the keys of the index on which k.lower() raises
NoneKeys(index) == {i \in DOMAIN index : index[i].name = PyNone}

\* get_resume_id_by_name of src/tools.py: the exact pass lower-cases every key first
ToolsLookup(name, index, docs) ==
    LET exact == {i \in DOMAIN index : Lower(index[i].name) = NameNorm(name)}
        partial == {i \in DOMAIN index : Contains(Lower(index[i].name), NameNorm(name))}
    IN IF NoneKeys(index) # {} THEN Failed
       ELSE IF exact # {} THEN Found(index[Min(exact)].name, index[Min(exact)].resumeId, 0)
       ELSE IF partial # {}
       THEN Found(index[Min(partial)].name, index[Min(partial)].resumeId, 0)
       ELSE StoreLookup(name, docs)

\* get_resume_id_by_name of src/app.py: one loop, which lower-cases the keys it reaches
AppLookup(name, index, docs) ==
    LET either == {i \in DOMAIN index \ NoneKeys(index) :
                      \/ NameNorm(name) = Lower(index[i].name)
                      \/ Contains(Lower(index[i].name), NameNorm(name))}
    IN IF NoneKeys(index) # {} /\ \A i \in either : Min(NoneKeys(index)) < i THEN Failed
       ELSE IF either # {}
       THEN Found(index[Min(either)].name, index[Min(either)].resumeId, 0)
       ELSE StoreLookup(name, docs)

\* get_resume_id_by_name: impl is "tools" or "app"
get_resume_id_by_name(name, index, docs, impl) ==
    IF impl = "tools" THEN ToolsLookup(name, index, docs) ELSE AppLookup(name, index, docs)

(***************************************************************************)
(* The chat session: the script of src/app.py and of src/design.py.        *)
(* src/design.py runs the helpers of src/utils.py and the tool of          *)
(* src/tools.py; src/app.py runs its own.  Every interaction runs the      *)
(* script once: the input handler, then the render loop.  The store        *)
(* answers every query of the session.                                     *)
(***************************************************************************)
MaxExchanges == 1   \* question/answer pairs in the memory of one session

MaxJobPrompts == 1  \* exchanges the Jobs button of src/design.py adds to the memory

ParserOf(u) == IF u = "design" THEN "utils" ELSE "app"

LookupOf(u) == IF u = "design" THEN "tools" ELSE "app"

Message(type, text) == [type |-> type, content |-> text]

\* f"ai_{i}" for the message at position j of the sequence (Python index j - 1)
AiKey(j) == "ai_" \o ToString(j - 1)

\* f"user_{timestamp}": the n-th submission of the session stands for its time
UserKey(n) == "user_" \o ToString(n)

\* what one script run carries through its render loop
Page(processed, index, counts, responses) ==
    [processed_responses |-> processed, resume_ids |-> index, parse_count |-> counts,
     resume_responses |-> responses]

\* mutant of Cached: the render loop never finds a reply in the cache
CachedNever(processed, key) == FALSE

\* ai_msg_key in st.session_state.processed_responses
Cached(processed, key) == key \in DOMAIN processed

\* if key not in processed_responses: processed_responses[key] = process_response(text)
Ensure(page, key, text, u) ==
    IF Cached(page.processed_responses, key) THEN page
    ELSE [page EXCEPT
             !.processed_responses = Put(@, key, process_response(text, ParserOf(u))),
             !.parse_count = Put(@, key, IF key \in DOMAIN @ THEN @[key] + 1 ELSE 1)]

\* resume_ids[name] = resumeId for every record that has both
RecordIds(index, resumes) ==
    DictUpdate(index,
               LET named == SelectSeq(resumes, LAMBDA r : r.resumeId # "" /\ r.name # "")
               IN [i \in DOMAIN named |-> Entry(named[i].name, named[i].resumeId)])

\* the render loop at a human message
ShowHuman(page, msgs, j, u) ==
    IF j + 1 <= Len(msgs) /\ msgs[j + 1].type = "ai"
    THEN With(Ensure(page, AiKey(j + 1), msgs[j + 1].content, u),
              LAMBDA parsed :
                 IF parsed.processed_responses[AiKey(j + 1)].is_resume_response
                 THEN [parsed EXCEPT
                          !.resume_responses =
                              Append(@, [query |-> msgs[j].content, index |-> j + 1])]
                 ELSE parsed)
    ELSE page

\* the render loop at an AI message
ShowAi(page, msgs, j, u) ==
    With(Ensure(page, AiKey(j), msgs[j].content, u),
         LAMBDA parsed :
            IF parsed.processed_responses[AiKey(j)].is_resume_response
            THEN With(DictUpdate(parsed.resume_ids,
                                 extract_resume_ids_from_response(
                                     parsed.processed_responses[AiKey(j)].full_text)),
                      LAMBDA extracted :
                         [parsed EXCEPT
                             !.resume_ids =
                                 IF u = "design"
                                 THEN RecordIds(extracted,
                                                parsed.processed_responses[AiKey(j)].resumes)
                                 ELSE extracted])
            ELSE parsed)

RECURSIVE ShowMessages(_, _, _, _)
\* for i, msg in enumerate(memory.chat_memory.messages)
ShowMessages(page, msgs, j, u) ==
    IF j > Len(msgs) THEN page
    ELSE With(IF msgs[j].type = "human" THEN ShowHuman(page, msgs, j, u)
              ELSE ShowAi(page, msgs, j, u),
              LAMBDA shown : ShowMessages(shown, msgs, j + 1, u))

\* the grid of one listing: backfill the cached records, index them by name, add
\* their job-match counts
ShowGrid(page, docs, jobs, k, u) ==
    With(attach_hidden_resume_ids(
             page.processed_responses[AiKey(page.resume_responses[k].index)].resumes,
             docs, ParserOf(u)),
         LAMBDA resumes :
            [page EXCEPT
                !.processed_responses[AiKey(page.resume_responses[k].index)].resumes =
                    SetJobsMatched(resumes, jobs),
                !.resume_ids = RecordIds(@, resumes)])

RECURSIVE ShowGrids(_, _, _, _, _)
\* for i, resp in enumerate(resume_responses)
ShowGrids(page, docs, jobs, k, u) ==
    IF k > Len(page.resume_responses) THEN page
    ELSE With(ShowGrid(page, docs, jobs, k, u),
              LAMBDA shown : ShowGrids(shown, docs, jobs, k + 1, u))

\* the display of the chat history by one script run
Render(u, msgs, docs, processed, index, jobs, counts) ==
    ShowGrids(ShowMessages(Page(processed, index, counts, <<>>), msgs, 1, u),
              docs, jobs, 1, u)

\* candidates of the replies of the session specification
Candidate(name, email, contactNo, location, experience, skills) ==
    [name |-> name, email |-> email, contactNo |-> contactNo, location |-> location,
     experience |-> experience, skills |-> skills]

John == Candidate("John Smith", "js@x.io", "11", "Pune", <<"Dev 2y", "QA">>, <<"SQL", "Go">>)

MaryAnn == Candidate("Mary Ann Lee", "ma@x.io", "22", "Goa", <<"Lead">>, <<"Java">>)

Ann == Candidate("Ann Lee", "al@x.io", "33", "Bali", <<"Dev">>, <<"C", "R">>)

Cher == Candidate("Cher", "ch@x.io", "44", "Rome", <<"Ops">>, <<"Bash">>)

\* a candidate block of the plain layout the agent is prompted to write
BlockText(c) ==
    c.name \o "\n\nEmail: " \o c.email \o "\nContact No: " \o c.contactNo
    \o "\nLocation: " \o c.location \o "\nExperience: " \o Join(c.experience, ", ")
    \o "\nSkills: " \o Join(c.skills, " , ")

\* a listing reply in the plain layout
ListingText(cs) ==
    "Here are some matches:\n\n" \o Join([i \in DOMAIN cs |-> BlockText(cs[i])], "\n\n")
    \o "\n\nThese candidates fit."

\* a candidate block of the numbered layout
NumberedBlockText(c, n) ==
    ToString(n) \o ". **" \o c.name \o "**\n   - **Email:** " \o c.email
    \o "\n   - **Contact No:** " \o c.contactNo \o "\n   - **Location:** " \o c.location
    \o "\n   - **Experience:** " \o Join(c.experience, ", ")
    \o "\n   - **Skills:** " \o Join(c.skills, ", ")

\* a listing reply in the numbered layout
NumberedText(cs) ==
    "Here are some matches:\n\n"
    \o Join([i \in DOMAIN cs |-> NumberedBlockText(cs[i], i)], "\n\n")
    \o "\n\nThese candidates fit."

\* the annotation the agent is prompted to append
MetaText(entries) == "\n<!--RESUME_META:" \o Dumps(entries) \o "-->"

\* the listings of plain blocks among the replies
PlainListings == {<<John>>, <<Cher>>, <<MaryAnn, Ann>>}

\* the replies of the agent
\* the replies of the agent to the Jobs button of src/design.py
JobReplies ==
    {"Job matches: {'results': [{'resumeId': 'r1', 'jobsMatched': 2}]}",
     "No job matches were found."}

Replies ==
    {ListingText(<<John>>),
     ListingText(<<Cher>>),
     ListingText(<<MaryAnn, Ann>>)
        \o MetaText(<<Entry("Mary Ann Lee", "r2"), Entry("Ann Lee", "r7")>>),
     NumberedText(<<John>>) \o "\n<!--RESUME_META:[{'name': 'John Smith'}]-->"
        \o "\nJob matches: {\"results\": " \o DumpsCounts(<<JobCount("r1", 2)>>) \o "}",
     "Hello, how can I help?\n<!--RESUME_META:" \o DumpsNameless(<<"r5">>) \o "-->",
     "Here are some tips. Experience: be brief. Skills: be specific."}

Questions == {"python devs"}

\* the names the agent asks get_resume_id_by_name for
AskedNames == {"ann lee", " ANN  lee ", "john", "Johnny", "Zed"}

SessionStores ==
    {<<StoredResume("r1", "John Smith", "", "js@x.io", "11", <<"python">>),
       StoredResume("r3", "Ann Lee", "", "al@x.io", "33", <<>>),
       StoredResume("r9", "", "Johnny Smithers", "jy@x.io", "99", <<"go">>)>>,
     <<>>}

\* the user submits a question: the agent answers, the handler indexes and
\* parses the reply, and the script runs again to display the history
Submit(question, reply) ==
    /\ ui # "none"
    /\ lookup = NoLookup
    /\ Len(messages) < 2 * MaxExchanges
    /\ messages' = messages \o <<Message("human", question), Message("ai", reply)>>
    /\ job_match_data' = StoreCounts(job_match_data, ReplyCounts(reply, FALSE).items)
    /\ \E page \in {Render(ui, messages', store,
                            Put(processed_responses, UserKey(Len(messages') \div 2),
                                process_response(reply, ParserOf(ui))),
                            DictUpdate(resume_ids, extract_resume_ids_from_response(reply)),
                            job_match_data', parse_count)} :
          /\ processed_responses' = page.processed_responses
          /\ resume_ids' = page.resume_ids
          /\ parse_count' = page.parse_count
    /\ outbox' = NoEmail
    /\ UNCHANGED <<store, ui, lookup, pipeline>>

\* the script runs again with no input (a widget of the page was touched)
Rerun ==
    /\ ui # "none"
    /\ lookup = NoLookup
    /\ \E page \in {Render(ui, messages, store, processed_responses, resume_ids,
                            job_match_data, parse_count)} :
          /\ processed_responses' = page.processed_responses
          /\ resume_ids' = page.resume_ids
          /\ parse_count' = page.parse_count
    /\ outbox' = NoEmail
    /\ UNCHANGED <<store, ui, messages, job_match_data, lookup, pipeline>>

\* the Email button of the k-th grid: the script runs again and mails that listing
Email(k) ==
    /\ ui # "none"
    /\ lookup = NoLookup
    /\ \E page \in {Render(ui, messages, store, processed_responses, resume_ids,
                            job_match_data, parse_count)} :
          /\ k \in DOMAIN page.resume_responses
          /\ \E key \in {AiKey(page.resume_responses[k].index)} :
             \E processed \in {page.processed_responses[key]} :
                /\ processed.resumes # <<>>
                /\ outbox' = [sent |-> TRUE, key |-> key,
                              subject |-> "ZappBot Results: "
                                          \o page.resume_responses[k].query,
                              body |-> reformat_email_body(processed.resumes,
                                                           processed.intro_text,
                                                           processed.conclusion_text)]
          /\ processed_responses' = page.processed_responses
          /\ resume_ids' = page.resume_ids
          /\ parse_count' = page.parse_count
    /\ UNCHANGED <<store, ui, messages, job_match_data, lookup, pipeline>>

\* the resumeIds of the records of the k-th grid of a page
GridIds(page, k) ==
    SelectSeq([i \in DOMAIN page.processed_responses[
                                AiKey(page.resume_responses[k].index)].resumes |->
                  page.processed_responses[
                      AiKey(page.resume_responses[k].index)].resumes[i].resumeId],
              LAMBDA id : id # "")

\* the Match Jobs button of the k-th grid of src/app.py: the counts of the grid's
\* resumeIds go to job_match_data and the script runs again; failed is the call that
\* returns {"error": ...}, which leaves the page as it is displayed
MatchJobs(k, failed) ==
    /\ ui = "app"
    /\ lookup = NoLookup
    /\ \E page \in {Render(ui, messages, store, processed_responses, resume_ids,
                            job_match_data, parse_count)} :
          /\ k \in DOMAIN page.resume_responses
          /\ page.processed_responses[AiKey(page.resume_responses[k].index)].resumes # <<>>
          /\ job_match_data' =
                IF failed THEN job_match_data
                ELSE StoreCounts(job_match_data, get_job_match_counts(GridIds(page, k)))
          /\ \E again \in {Render(ui, messages, store, page.processed_responses,
                                   page.resume_ids, job_match_data', page.parse_count)} :
                /\ processed_responses' = again.processed_responses
                /\ resume_ids' = again.resume_ids
                /\ parse_count' = again.parse_count
    /\ outbox' = NoEmail
    /\ UNCHANGED <<store, ui, messages, lookup, pipeline>>

\* the Jobs button of the k-th grid of src/design.py: the agent is asked for the
\* counts of the grid's resumeIds, its reply joins the memory, and when the reply
\* carries counts they go to job_match_data and the script runs again
AskJobs(k, reply) ==
    /\ ui = "design"
    /\ lookup = NoLookup
    /\ Len(messages) < 2 * (MaxExchanges + MaxJobPrompts)
    /\ \E page \in {Render(ui, messages, store, processed_responses, resume_ids,
                            job_match_data, parse_count)} :
          /\ k \in DOMAIN page.resume_responses
          /\ GridIds(page, k) # <<>>
          /\ messages' = messages
                         \o <<Message("human", "Get job match counts for these resume IDs: "
                                               \o PyRepr(GridIds(page, k))),
                              Message("ai", reply)>>
          /\ \E match_data \in {ReplyCounts(reply, TRUE)} :
                /\ job_match_data' = StoreCounts(job_match_data, match_data.items)
                /\ \E again \in {IF match_data.ok
                                  THEN Render(ui, messages', store, page.processed_responses,
                                              page.resume_ids, job_match_data',
                                              page.parse_count)
                                  ELSE page} :
                      /\ processed_responses' = again.processed_responses
                      /\ resume_ids' = again.resume_ids
                      /\ parse_count' = again.parse_count
    /\ outbox' = NoEmail
    /\ UNCHANGED <<store, ui, lookup, pipeline>>

\* mutant of ClearChatHistory: the button clears the memory and keeps the caches
ClearKeepsCaches ==
    /\ ui # "none"
    /\ lookup = NoLookup
    /\ messages' = <<>>
    /\ outbox' = NoEmail
    /\ UNCHANGED <<store, ui, lookup, pipeline, processed_responses, resume_ids,
                   job_match_data, parse_count>>

\* the Clear Chat History button
ClearChatHistory ==
    /\ ui # "none"
    /\ lookup = NoLookup
    /\ messages' = <<>>
    /\ processed_responses' = <<>>
    /\ resume_ids' = <<>>
    /\ job_match_data' = <<>>
    /\ parse_count' = <<>>
    /\ outbox' = NoEmail
    /\ UNCHANGED <<store, ui, lookup, pipeline>>

\* the agent calls the tool get_resume_id_by_name
Lookup(name) ==
    /\ ui # "none"
    /\ lookup = NoLookup
    /\ lookup' = [asked |-> name,
                  returned |-> get_resume_id_by_name(name, resume_ids, store, LookupOf(ui))]
    /\ UNCHANGED <<store, ui, messages, processed_responses, resume_ids, job_match_data,
                   parse_count, outbox, pipeline>>

\* the agent has taken the tool's result
LookupReturn ==
    /\ lookup # NoLookup
    /\ lookup' = NoLookup
    /\ UNCHANGED <<store, ui, messages, processed_responses, resume_ids, job_match_data,
                   parse_count, outbox, pipeline>>

SessionInit ==
    /\ store \in SessionStores
    /\ ui \in {"app", "design"}
    /\ messages = <<>>
    /\ processed_responses = <<>>
    /\ resume_ids = <<>>
    /\ job_match_data = <<>>
    /\ parse_count = <<>>
    /\ lookup = NoLookup
    /\ outbox = NoEmail
    /\ pc = "idle"
    /\ request = NoRequest
    /\ mongo_q = Filter(<<>>, <<>>)
    /\ candidates = <<>>
    /\ outcome = NoOutcome
    /\ storeQueries = 0
    /\ oracleCalls = 0
    /\ store_failed = FALSE
    /\ content = NoReply

SessionNext ==
    \/ \E question \in Questions, reply \in Replies : Submit(question, reply)
    \/ Rerun
    \/ \E k \in 1..MaxExchanges : Email(k)
    \/ \E k \in 1..MaxExchanges, failed \in BOOLEAN : MatchJobs(k, failed)
    \/ \E k \in 1..MaxExchanges, reply \in JobReplies : AskJobs(k, reply)
    \/ ClearChatHistory
    \/ \E name \in AskedNames : Lookup(name)
    \/ LookupReturn

SessionSpec == SessionInit /\ [][SessionNext]_vars

\* the types of the session
SessionTypeOK ==
    /\ ui \in {"app", "design"}
    /\ Len(messages) <= 2 * (MaxExchanges + MaxJobPrompts)
    /\ \A k \in DOMAIN processed_responses :
          processed_responses[k].is_resume_response \in BOOLEAN
    /\ outbox.sent \in BOOLEAN

(***************************************************************************)
(* Claims about the response parser, the identity reconciler, the mail     *)
(* rendering and the render cache, checked under SessionSpec.              *)
(***************************************************************************)
\* the cache keys of the AI messages of the memory
AiKeys == {AiKey(j) : j \in {i \in DOMAIN messages : messages[i].type = "ai"}}

\* the text a cached dictionary was parsed from
TextOf(key) ==
    IF key \in AiKeys
    THEN messages[CHOOSE j \in DOMAIN messages : AiKey(j) = key].content
    ELSE messages[CHOOSE j \in DOMAIN messages : UserKey(j \div 2) = key /\ j % 2 = 0].content

\* the display fields of a record
DisplayFields(r) ==
    [name |-> r.name, email |-> r.email, contactNo |-> r.contactNo,
     location |-> r.location, experience |-> r.experience, skills |-> r.skills]

DisplayRecords(resumes) == [i \in DOMAIN resumes |-> DisplayFields(resumes[i])]

\* C14: a text in which neither grammar finds a candidate is marked as a non-listing,
\* also when it passed the detection rule, and full_text is the input text verbatim.
C14_NoGrammarMatchIsNonListing ==
    \A key \in DOMAIN processed_responses :
        /\ processed_responses[key].resumes = <<>>
              => ~processed_responses[key].is_resume_response
        /\ processed_responses[key].full_text = TextOf(key)

\* C15: a listing of N well-formed blocks of the plain grammar parses into exactly N
\* records, in text order, with the fields of the blocks and the trimmed entries of
\* their Experience and Skills lines.
C15_OneRecordPerPlainBlock ==
    \A key \in DOMAIN processed_responses : \A cs \in PlainListings :
        processed_responses[key].full_text = ListingText(cs)
            => DisplayRecords(processed_responses[key].resumes) = cs

\* the cached records the backfill has run on
BackfilledRecords ==
    UNION {{processed_responses[key].resumes[i] :
                i \in DOMAIN processed_responses[key].resumes} : key \in AiKeys}

\* C16: after the backfill, a record whose (email, contactNo) pair is that of a stored
\* document carries the document's resumeId and its stored keywords, and a record
\* without such a document has no resumeId.
C16_BackfillCopiesIdAndKeywords ==
    \A r \in BackfilledRecords :
        LET hit == FindOneByContact(store, r.email, r.contactNo)
        IN IF hit.found
           THEN /\ r.resumeId = hit.doc.resumeId
                /\ hit.doc.keywords # <<>>
                      => r.has_keywords /\ r.keywords = hit.doc.keywords
           ELSE r.resumeId = ""

\* the index entries whose key equals, or contains, the normalized name asked for
ExactKeys == {i \in DOMAIN resume_ids : Lower(resume_ids[i].name) = NameNorm(lookup.asked)}

SubstringKeys ==
    {i \in DOMAIN resume_ids : Contains(Lower(resume_ids[i].name), NameNorm(lookup.asked))}

Returns(i) ==
    /\ lookup.returned.found
    /\ lookup.returned.name = resume_ids[i].name
    /\ lookup.returned.resumeId = resume_ids[i].resumeId

\* C17: get_resume_id_by_name returns the exact-match entry when there is one, also
\* when an earlier key contains the name; a substring match only when no key matches
\* exactly; and it asks the store only when the index yields neither.
C17_ExactThenSubstringThenStore ==
    lookup # NoLookup =>
        /\ ExactKeys # {} => Returns(Min(ExactKeys))
        /\ ExactKeys = {} /\ SubstringKeys # {} => Returns(Min(SubstringKeys))
        /\ lookup.returned.finds > 0 => ExactKeys = {} /\ SubstringKeys = {}

\* C19: parsing the text reformat_email_body renders from a listing's records yields
\* records with the same name, email, contactNo, location, experience and skills.
C19_RenderThenParseRoundTrip ==
    outbox.sent =>
        DisplayRecords(process_response(outbox.body, ParserOf(ui)).resumes)
            = DisplayRecords(processed_responses[outbox.key].resumes)

\* C20: a reply that is in the cache is never parsed again by a later render, and a
\* script run without a new message (every AI message of the memory was displayed by
\* the run before) leaves processed_responses, the cached records and the name index
\* as the run before left them.
C20_RendersAreIdempotent ==
    /\ [](\A key \in DOMAIN parse_count : parse_count[key] <= 1)
    /\ [][((Rerun \/ \E k \in 1..MaxExchanges : Email(k))
             /\ AiKeys \subseteq DOMAIN processed_responses)
            => UNCHANGED <<processed_responses, resume_ids, parse_count>>]_vars

\* a later script run has displayed (and mailed) a cached listing with a backfilled
\* record and an indexed name
C20_Witness ==
    /\ outbox.sent
    /\ parse_count[outbox.key] = 1
    /\ \E i \in DOMAIN processed_responses[outbox.key].resumes :
          processed_responses[outbox.key].resumes[i].resumeId # ""
    /\ resume_ids # <<>>

(***************************************************************************)
(* The mode specification: search_resumes of src/app1.py under each search *)
(* method, over one-document stores that vary job titles, skill names and  *)
(* keywords, and criteria that combine titles and skills.                  *)
(***************************************************************************)
ModeJobs ==
    {<<Job("Software Developer", Num(3))>>,
     <<Job("data analyst", Num(1)), Job("Senior software developer", Num(2))>>,
     <<Job("Data Analyst", Num(4))>>}

ModeSkills ==
    {<<>>, <<Skill("SQL")>>, <<Skill("MySQL"), Skill("Python")>>,
     <<Skill("rust"), Skill("sql")>>}

ModeKeywords == {<<>>, <<"Python 3">>}

ModeStores ==
    {<<Doc("r1", Str("Indonesia"), jobs, skills, keywords, Missing)>> :
        jobs \in ModeJobs, skills \in ModeSkills, keywords \in ModeKeywords}

\* the form's default criteria (src/app1.py, search form)
ScenarioTitles == <<"software developer">>
ScenarioSkills == <<"sql", "python">>
ScenarioMinExp == 3

\* requested titles and skills
ModeCriteria ==
    {<<titles, <<>>>> :
        titles \in {<<>>, ScenarioTitles, <<"software developer", "data analyst">>, <<"">>}}
    \cup
    {<<<<>>, skills>> :
        skills \in {ScenarioSkills, <<"MySQL", "postgresql">>, <<"sql", "rust">>,
                    <<"Python", "">>}}
    \cup
    {<<ScenarioTitles, ScenarioSkills>>,
     <<<<"software developer", "data analyst">>, <<"sql", "rust">>>>}

\* a call without search_method runs with the default of the signature
ModeMethods == {DefaultMethod("app1"), "strict", "balanced", "relaxed"}

ModeRequests ==
    {Request("app1", "", Null, Null, asked[1], asked[2], App1TopKDefault, method) :
        asked \in ModeCriteria, method \in ModeMethods}
    \cup
    {Request("app1", "Indonesia", Num(ScenarioMinExp), Null, asked[1], asked[2],
             App1TopKDefault, method) :
        asked \in {<<<<>>, <<>>>>, <<ScenarioTitles, ScenarioSkills>>},
        method \in ModeMethods}

ModeInit ==
    /\ store \in ModeStores
    /\ pc = "idle"
    /\ request = NoRequest
    /\ mongo_q = Filter(<<>>, <<>>)
    /\ candidates = <<>>
    /\ outcome = NoOutcome
    /\ storeQueries = 0
    /\ oracleCalls = 0
    /\ store_failed = FALSE
    /\ content = NoReply
    /\ NoSession

ModeNext ==
    \/ \E req \in ModeRequests : Call(req)
    \/ StoreOk
    \/ StoreFail
    \/ Return

ModeSpec == ModeInit /\ [][ModeNext]_vars

(***************************************************************************)
(* Properties of the search methods of search_resumes (checked under       *)
(* ModeSpec).  A requested term matches a string of a record when the      *)
(* lower-cased term occurs in it between word boundaries, ignoring case.   *)
(***************************************************************************)
SearchResumes == request.impl = "app1"

\* the requested entries that are not empty
Asked(xs) == Range(xs) \ {""}

HoldsTitle(doc, title) == \E t \in Titles(doc) : RegexWordI(Lower(title), t)

HoldsSkill(doc, skill) ==
    \E s \in SkillNames(doc) \cup Range(doc.keywords) : RegexWordI(Lower(skill), s)

SkillFamilies == {"SQL", "Python", "JavaScript"}

\* the requested skills of one family
AskedOf(family) == {x \in Asked(request.skills) : SkillFamily(Lower(x)) = family}

HoldsSomeTitle(doc) ==
    Asked(request.job_titles) # {} =>
        \E title \in Asked(request.job_titles) : HoldsTitle(doc, title)

BalancedPolicy(doc) ==
    /\ HoldsSomeTitle(doc)
    /\ \A family \in SkillFamilies :
          AskedOf(family) # {} => \E x \in AskedOf(family) : HoldsSkill(doc, x)
    /\ \A x \in AskedOf("other") : HoldsSkill(doc, x)

Count(b) == IF b THEN 1 ELSE 0

\* the clauses the claim counts for the running request
BalancedClauses ==
    Count(~NoCountry) + Count(PositiveNumber(request.min_experience_years))
    + Count(Asked(request.job_titles) # {})
    + Cardinality({family \in SkillFamilies : AskedOf(family) # {}})
    + Len(SelectSeq(NonEmpty(request.skills), LAMBDA x : SkillFamily(Lower(x)) = "other"))

\* the scenario: Indonesia, [sql, python], 3 years, [software developer], balanced
Scenario ==
    /\ request.country = "Indonesia"
    /\ request.min_experience_years = Num(ScenarioMinExp)
    /\ request.job_titles = ScenarioTitles
    /\ request.skills = ScenarioSkills
    /\ request.search_method = "balanced"

\* the literals of the regex clauses under a $or
Literals(c) == UNION {c.args[i].vals : i \in DOMAIN c.args}

\* C21: in balanced mode the filter has one clause for the titles (any of them), one
\* clause per non-empty skill family (any member of it) and one per other skill, and a
\* record is pooled iff it satisfies them; the scenario's filter is exactly a country
\* clause, an experience >= 3 clause, one title clause, a sql clause and a python
\* clause.
C21_BalancedFamilies ==
    (SearchResumes /\ request.search_method = "balanced" /\ pc # "idle") =>
        /\ mongo_q.top = <<>> /\ Len(mongo_q.and) = BalancedClauses
        /\ Answered =>
              \A i \in DOMAIN store :
                  /\ InPool(store[i]) => BalancedPolicy(store[i])
                  /\ (NoCountry /\ NoExperience) =>
                        (BalancedPolicy(store[i]) => InPool(store[i]))
        /\ Scenario =>
              /\ Len(mongo_q.and) = 5
              /\ Mentions(mongo_q.and[1], {"country"})
              /\ mongo_q.and[2].op = "expr_gte" /\ mongo_q.and[2].n = ScenarioMinExp
              /\ Mentions(mongo_q.and[3], {"jobExperiences.title"})
              /\ Literals(mongo_q.and[3]) = {"software developer"}
              /\ Literals(mongo_q.and[4]) = {"sql"}
              /\ Literals(mongo_q.and[5]) = {"python"}
              /\ \A k \in {4, 5} :
                    {mongo_q.and[k].args[i].field : i \in DOMAIN mongo_q.and[k].args}
                        = {"skills.skillName", "keywords"}
              /\ Answered =>
                    \A i \in DOMAIN store :
                        InPool(store[i]) <=>
                            /\ Lower(store[i].country.s) = "indonesia"
                            /\ ClaimedTotal(store[i]) >= ScenarioMinExp
                            /\ BalancedPolicy(store[i])

\* the scenario pooled a record that shows sql by a skill name and python by a keyword
C21_Witness ==
    /\ SearchResumes /\ Scenario /\ Answered
    /\ \E i \in DOMAIN store :
          /\ InPool(store[i])
          /\ SkillNames(store[i]) = {"rust", "sql"}
          /\ Range(store[i].keywords) = {"Python 3"}

RelaxedPolicy(doc) ==
    /\ HoldsSomeTitle(doc)
    /\ Asked(request.skills) # {} =>
          \E skill \in Asked(request.skills) : HoldsSkill(doc, skill)

\* C22: in relaxed mode a record passes the title/skill policy iff some requested
\* title matches one of its job titles (when titles are requested) and some requested
\* skill matches its skill names or keywords (when skills are requested).
C22_RelaxedAnyTitleAnySkill ==
    (SearchResumes /\ request.search_method = "relaxed" /\ Answered) =>
        \A i \in DOMAIN store :
            /\ InPool(store[i]) => RelaxedPolicy(store[i])
            /\ (NoCountry /\ NoExperience) => (RelaxedPolicy(store[i]) => InPool(store[i]))

\* two titles and two skills were requested in relaxed mode and a record holding one
\* of the titles and one of the skills was pooled
C22_Witness ==
    /\ SearchResumes /\ request.search_method = "relaxed" /\ Answered
    /\ request.job_titles = <<"software developer", "data analyst">>
    /\ request.skills = <<"sql", "rust">>
    /\ \E i \in DOMAIN store :
          /\ InPool(store[i])
          /\ Titles(store[i]) = {"Data Analyst"}
          /\ SkillNames(store[i]) = {"SQL"} /\ store[i].keywords = <<>>

\* the running criteria under another search method
Under(method) == [request EXCEPT !.search_method = method]

\* C23 as stated: a call without a search method compiles the filter of the balanced
\* method
C23_DefaultIsBalanced ==
    (SearchResumes /\ request.search_method = DefaultMethod("app1") /\ pc # "idle") =>
        mongo_q = App1Filter(Under("balanced"))

Passes(doc, method) == EvalFilter(doc, App1Filter(Under(method))) = "T"

\* the country and experience clauses of a filter
PlaceClauses(q) ==
    SelectSeq(Clauses(q),
              LAMBDA c : Mentions(c, {"country"}) \/ Compares(c, {"expr_gte"}))

\* C28: for the same criteria, a record that matches the strict filter matches the
\* balanced filter, and one that matches the balanced filter matches the relaxed
\* filter; the country and experience clauses are the same in the three modes.
C28_StrictBalancedRelaxed ==
    (SearchResumes /\ pc # "idle") =>
        /\ \A i \in DOMAIN store :
              /\ Passes(store[i], "strict") => Passes(store[i], "balanced")
              /\ Passes(store[i], "balanced") => Passes(store[i], "relaxed")
        /\ PlaceClauses(App1Filter(Under("strict")))
               = PlaceClauses(App1Filter(Under("balanced")))
        /\ PlaceClauses(App1Filter(Under("balanced")))
               = PlaceClauses(App1Filter(Under("relaxed")))
        /\ Len(PlaceClauses(mongo_q))
               = Count(~NoCountry) + Count(PositiveNumber(request.min_experience_years))
        /\ (Answered /\ request.search_method \in {"strict", "balanced", "relaxed"}) =>
              \A i \in DOMAIN store :
                  InPool(store[i]) => Passes(store[i], "relaxed")

\* the strict method pooled a record for two titles and two skills
C28_Witness ==
    /\ SearchResumes /\ request.search_method = "strict" /\ Answered
    /\ Len(request.job_titles) = 2 /\ Len(request.skills) = 2
    /\ candidates # <<>>

(***************************************************************************)
(* Further claims about the parser, the sidecar annotation, the backfill,  *)
(* the name lookup and the session caches (checked under SessionSpec).     *)
(***************************************************************************)
\* the text with its field labels "Experience:" and "Skills:" in capitals
CapitalLabels(text) ==
    ReplaceAll(ReplaceAll(text, "Experience:", "EXPERIENCE:"), "Skills:", "SKILLS:")

\* C24: a text is marked as a listing only if it holds the introductory
\* phrase and both field labels, and a text that differs from it only in the letter
\* case of the labels gets the same classification
C24_LabelCaseIsIgnored ==
    \A key \in DOMAIN processed_responses :
        /\ processed_responses[key].is_resume_response =>
              /\ Contains(processed_responses[key].full_text, "Here are some")
              /\ \E label \in {"Experience:", "experience:"} :
                    Contains(processed_responses[key].full_text, label)
              /\ \E label \in {"Skills:", "skills:"} :
                    Contains(processed_responses[key].full_text, label)
        /\ process_response(CapitalLabels(processed_responses[key].full_text),
                            ParserOf(ui)).is_resume_response
               = processed_responses[key].is_resume_response

\* the cached dictionaries of the AI messages
CachedAiKeys == AiKeys \cap DOMAIN processed_responses

\* C25: a record of a listing whose name the sidecar annotation of the same
\* text pairs with a resumeId carries that resumeId once the message has been
\* processed, and its display fields are those the listing grammar parsed
C25_SidecarSeedsRecords ==
    \A key \in CachedAiKeys :
        \A pair \in Range(extract_resume_ids_from_response(TextOf(key))) :
            \A i \in DOMAIN processed_responses[key].resumes :
                processed_responses[key].resumes[i].name = pair.name =>
                    /\ processed_responses[key].resumes[i].resumeId = pair.resumeId
                    /\ DisplayFields(processed_responses[key].resumes[i])
                           \in Range(DisplayRecords(
                                   process_response(TextOf(key), ParserOf(ui)).resumes))

\* a store that files the record's (email, contactNo) pair under another resumeId and
\* other keywords
Refiled(r) == <<StoredResume("r0", r.name, "", r.email, r.contactNo, <<"other">>)>>

\* C26: the backfill leaves a record that has a resumeId as it is, whatever
\* the store holds for its (email, contactNo) pair
C26_BackfillKeepsIdentified ==
    \A r \in BackfilledRecords :
        r.resumeId # "" =>
            \A docs \in {store, Refiled(r)} :
                attach_hidden_resume_ids(<<r>>, docs, ParserOf(ui)) = <<r>>

\* what the caller sees of an outcome
Seen(returned) ==
    [found |-> returned.found, error |-> returned.error, name |-> returned.name,
     resumeId |-> returned.resumeId]

\* C27: two queried names with the same normalized form give the same
\* outcome for the same index and store, also when the store is asked
C27_SameNormalizedSameOutcome ==
    lookup # NoLookup =>
        \A other \in AskedNames :
            NameNorm(other) = NameNorm(lookup.asked) =>
                Seen(get_resume_id_by_name(other, resume_ids, store, LookupOf(ui)))
                    = Seen(lookup.returned)

\* C29: every key of the name index is a name string and every value a
\* non-empty resumeId, no lookup ends in an error, and every outcome with found = true
\* carries a non-empty resumeId
C29_IndexEntriesWellFormed ==
    /\ \A i \in DOMAIN resume_ids :
          resume_ids[i].name # PyNone /\ resume_ids[i].resumeId # ""
    /\ lookup # NoLookup =>
          /\ ~lookup.returned.error
          /\ lookup.returned.found => lookup.returned.resumeId # ""

IsAiKey(key) == Len(key) >= 3 /\ SubSeq(key, 1, 3) = "ai_"

\* a cached dictionary without the fields the backfill adds to its records
AsParsed(processed) ==
    [processed EXCEPT !.resumes = DisplayRecords(@)]

\* C30: every cached entry ai_i belongs to the AI message at position i of the memory
\* and is the parse of that message's text, up to the fields added to its records
\* later; Clear Chat History empties the memory, processed_responses, the name index
\* and job_match_data in one step.
C30_CacheFollowsMemory ==
    /\ [](\A key \in DOMAIN processed_responses :
             IsAiKey(key) =>
                 /\ key \in AiKeys
                 /\ AsParsed(processed_responses[key])
                        = AsParsed(process_response(TextOf(key), ParserOf(ui))))
    /\ [][ClearChatHistory =>
             (/\ messages' = <<>> /\ processed_responses' = <<>>
              /\ resume_ids' = <<>> /\ job_match_data' = <<>>)]_vars

\* the cached listing of the AI message in the memory holds a record the backfill has
\* completed and the render loop has given its job-match count
C30_Witness ==
    /\ Len(messages) = 2 /\ AiKey(2) \in DOMAIN processed_responses
    /\ processed_responses[AiKey(2)].is_resume_response
    /\ \E i \in DOMAIN processed_responses[AiKey(2)].resumes :
          /\ processed_responses[AiKey(2)].resumes[i].resumeId # ""
          /\ processed_responses[AiKey(2)].resumes[i].keywords # <<>>
          /\ processed_responses[AiKey(2)].resumes[i].has_jobsMatched
          /\ processed_responses[AiKey(2)].resumes[i].resumeId \in DOMAIN job_match_data

====
